---------------------------- MODULE Spec2Model ----------------------------
(***************************************************************************)
(* A model of the resumable staged pipeline of Data_Gen_Agent.             *)
(*                                                                         *)
(* The driver is `main` of src/main.py: it sequences query parsing, web    *)
(* search and content gathering, topic extraction and synthetic data       *)
(* generation, and records its progress in a PipelineStateManager.  The    *)
(* state manager (utils/pipeline_state_manager.py) is not among the        *)
(* sources; it is modelled from section 4.1 of the specification: every    *)
(* operation is synchronous and write-through, so each save_asset,         *)
(* clear_asset, update_status and update_checkpoint is one durable step    *)
(* and save_state adds nothing to what is already durable.                 *)
(*                                                                         *)
(* One action is one durable store operation of the driver together with   *)
(* the computation that precedes it: a process that is killed between two  *)
(* store operations loses only its local variables, so the crash points    *)
(* of the program are exactly the boundaries between actions.              *)
(***************************************************************************)
EXTENDS Integers, Sequences, FiniteSets, TLC

(***************************************************************************)
(* Bounds of the model.                                                    *)
(***************************************************************************)
\* Largest sample_count the query parser returns.
MaxSample == 3
\* settings.ROWS_PER_SUBTOPIC (src/config/settings.py:25) is read from the
\* environment; the model runs the pipeline with a small value of it.
RowsPerSubtopic == 2
\* Largest number of chunks one content-gathering round produces.
MaxChunks == 2
\* Longest topic list the generation service returns for one chunk.
MaxTopicsPerChunk == 2
\* Number of times the process is killed or run again.
MaxRestarts == 1
\* Largest settings.PARALLEL_AGENTS the orchestrator is run with.
MaxWorkers == 2
MaxRetries == 3
MaxKeys == 3
MaxResults == 3

(***************************************************************************)
(* STATUS_LEVELS                                                           *)
(***************************************************************************)
StatusNames ==
    { "initial", "initialized", "query_parsed", "query_refined", "web_searched",
      "web_scraped", "content_gathered", "topics_extracted", "data_generated",
      "completed" }

STATUS_LEVELS(s) ==
    CASE s = "initial"          -> 0
      [] s = "initialized"      -> 1
      [] s = "query_parsed"     -> 2
      [] s = "query_refined"    -> 3
      [] s = "web_searched"     -> 4
      [] s = "web_scraped"      -> 5
      [] s = "content_gathered" -> 6
      [] s = "topics_extracted" -> 7
      [] s = "data_generated"   -> 8
      [] s = "completed"        -> 9

(***************************************************************************)
(* Topic texts are short character sequences, so that case and surrounding *)
(* whitespace are there to be folded.                                      *)
(***************************************************************************)
TopicTexts == { <<"a">>, <<"A", " ">>, <<"b">> }

LowerChar(c) == IF c = "A" THEN "a" ELSE IF c = "B" THEN "b" ELSE c

Lower(s) == [i \in 1..Len(s) |-> LowerChar(s[i])]

RECURSIVE LStrip(_)
LStrip(s) == IF s # <<>> /\ Head(s) = " " THEN LStrip(Tail(s)) ELSE s

RECURSIVE RStrip(_)
RStrip(s) ==
    IF s # <<>> /\ s[Len(s)] = " " THEN RStrip(SubSeq(s, 1, Len(s) - 1)) ELSE s

Strip(s) == LStrip(RStrip(s))

\* topic.lower().strip(): the key the extraction agent dedups by.
TopicKey(t) == Strip(Lower(t))

Range(s) == { s[i] : i \in 1..Len(s) }

\* TopicExtractionAgent.execute: the first topic of each key, in order.
RECURSIVE UniqueByKey(_, _)
UniqueByKey(topics, seen) ==
    IF topics = <<>> THEN <<>>
    ELSE IF TopicKey(Head(topics)) \in seen
         THEN UniqueByKey(Tail(topics), seen)
         ELSE <<Head(topics)>> \o
              UniqueByKey(Tail(topics), seen \cup {TopicKey(Head(topics))})

\* list(dict.fromkeys(xs)): the first occurrence of each equal element.
RECURSIVE DictFromKeys(_, _)
DictFromKeys(xs, seen) ==
    IF xs = <<>> THEN <<>>
    ELSE IF Head(xs) \in seen
         THEN DictFromKeys(Tail(xs), seen)
         ELSE <<Head(xs)>> \o DictFromKeys(Tail(xs), seen \cup {Head(xs)})

\* A variant that puts the topics of the chunk before the topics so far.
MergeTopicsNewFirst(existing, newly) == DictFromKeys(newly \o existing, {})

\* The driver's merge of the topics of one chunk into the topics so far.
MergeTopics(existing, newly) == DictFromKeys(existing \o newly, {})

\* ParsedQuery.calculate_required_subtopics: ceil(sample_count / rows).
RequiredTopics(sample, rows) == (sample + rows - 1) \div rows

SeqsUpTo(S, n) == UNION { [1..k -> S] : k \in 0..n }

\* What the generation service may return for one chunk.
RawTopicLists == SeqsUpTo(TopicTexts, MaxTopicsPerChunk)

\* A generated record: the topic it was generated for and its place in the
\* service's answer.
GenItems(topic, n) == [j \in 1..n |-> <<topic, j>>]

(***************************************************************************)
(* State.                                                                  *)
(***************************************************************************)
VARIABLES
    status,        \* state["status"]
    sample_count,  \* state["parsed_query"].sample_count, 0 before parsing
    checkpoint,    \* state["checkpoint"]
    assets,        \* the assets of the run
    pc,            \* the driver's position
    l_chunk,       \* stage 3: index of the chunk being processed
    l_topic,       \* stage 4: actual_topic_index
    l_index,       \* stage 4: current_topic_index
    l_data,        \* stage 4: current_synthetic_data
    restarts       \* number of kills and re-runs so far

\* The components that are also run on their own, outside the driver: each
\* is idle while another one runs.
VARIABLES
    orch,          \* a call of the ParallelProcessingOrchestrator
    gen,           \* a call of SyntheticDataGeneratorAgent.execute
    call,          \* a call of TavilyService.search or Crawl4AIService.scrape_url
    gemini         \* the GeminiService and a call of generate_text

components == << orch, gen, call, gemini >>

driver == << status, sample_count, checkpoint, assets, pc,
             l_chunk, l_topic, l_index, l_data, restarts >>

vars == << driver, components >>

\* A component that is not running.
Idle == [phase |-> "idle"]

ComponentsIdle ==
    /\ orch = Idle
    /\ gen = Idle
    /\ call = Idle
    /\ gemini = Idle

store == << status, sample_count, checkpoint, assets >>
locals == << l_chunk, l_topic, l_index, l_data >>

\* An asset that was never written or was cleared.
Absent == "absent"
\* The answers the refinement and the search service can give in one round;
\* the filtered results and the scraped content carry the answer they were
\* derived from.
Responses == { "r1", "r2" }
\* The all_chunks asset before it is written.
NoChunks == -1
\* A checkpoint key that was never set.
Unset == -2

\* get_checkpoint_value(key, default)
GetCheckpoint(key, default) ==
    IF checkpoint[key] = Unset THEN default ELSE checkpoint[key]

Level == STATUS_LEVELS(status)

required_topics == RequiredTopics(sample_count, RowsPerSubtopic)

NumChunks == IF assets.all_chunks = NoChunks THEN 0 ELSE assets.all_chunks

Init ==
    /\ status \in {"initial", "initialized"}
    /\ sample_count = 0
    /\ checkpoint = [ required_topics |-> Unset,
                      last_processed_chunk_index |-> Unset,
                      last_processed_topic_index |-> Unset,
                      topics_found |-> Unset,
                      synthetic_data_generated_count |-> Unset ]
    /\ assets = [ refined_queries |-> Absent,
                  search_results |-> Absent,
                  filtered_results |-> Absent,
                  scraped_content |-> Absent,
                  all_chunks |-> NoChunks,
                  all_extracted_topics |-> <<>>,
                  synthetic_data |-> <<>> ]
    /\ pc = "start"
    /\ l_chunk = 0
    /\ l_topic = 0
    /\ l_index = -1
    /\ l_data = <<>>
    /\ restarts = 0
    /\ ComponentsIdle

(***************************************************************************)
(* Stage 1: query parsing.                                                 *)
(***************************************************************************)
\* A variant that parses the query whatever the level is.
Stage1ParseAnyLevel ==
    /\ pc = "start"
    /\ \E s \in 1..MaxSample : sample_count' = s
    /\ status' = "query_parsed"
    /\ pc' = "s1_checkpoint"
    /\ UNCHANGED << checkpoint, assets, locals, restarts, components >>

Stage1Parse ==
    /\ pc = "start"
    /\ Level < STATUS_LEVELS("query_parsed")
    /\ \E s \in 1..MaxSample : sample_count' = s
    /\ status' = "query_parsed"
    /\ pc' = "s1_checkpoint"
    /\ UNCHANGED << checkpoint, assets, locals, restarts, components >>

Stage1Skip ==
    /\ pc = "start"
    /\ Level >= STATUS_LEVELS("query_parsed")
    /\ pc' = "s1_checkpoint"
    /\ UNCHANGED << store, locals, restarts, components >>

Stage1Checkpoint ==
    /\ pc = "s1_checkpoint"
    /\ checkpoint' = [checkpoint EXCEPT !.required_topics = required_topics]
    /\ pc' = "loop"
    /\ UNCHANGED << status, sample_count, assets, locals, restarts, components >>

\* The head of the generation loop.
LoopHead ==
    /\ pc = "loop"
    /\ pc' = "s2"
    /\ UNCHANGED << store, locals, restarts, components >>

(***************************************************************************)
(* Stage 2: web search and content gathering.  The refined queries and the *)
(* search results are the services' answers, one of Responses; the         *)
(* filtered results and the scraped content are derived from the search    *)
(* results of the round.                                                   *)
(***************************************************************************)
Stage2Skip ==
    /\ pc = "s2"
    /\ Level >= STATUS_LEVELS("content_gathered")
    /\ pc' = "s3"
    /\ UNCHANGED << store, locals, restarts, components >>

\* A variant that refines whatever the level is.
RefineSaveAnyLevel(answers) ==
    /\ pc = "s2"
    /\ \E q \in answers :
          assets' = [assets EXCEPT !.refined_queries = q]
    /\ pc' = "s2_refined"
    /\ UNCHANGED << status, sample_count, checkpoint, locals, restarts, components >>

RefineSave(answers) ==
    /\ pc = "s2"
    /\ Level < STATUS_LEVELS("content_gathered")
    /\ Level < STATUS_LEVELS("query_refined")
    /\ \E q \in answers :
          assets' = [assets EXCEPT !.refined_queries = q]
    /\ pc' = "s2_refined"
    /\ UNCHANGED << status, sample_count, checkpoint, locals, restarts, components >>

RefineStatus ==
    /\ pc = "s2_refined"
    /\ status' = "query_refined"
    /\ pc' = "s2_search"
    /\ UNCHANGED << sample_count, checkpoint, assets, locals, restarts, components >>

\* load_asset("refined_queries") of an absent asset would raise; the asset
\* is there whenever this branch is taken (AssetBeforeStatus).
RefineSkip ==
    /\ pc = "s2"
    /\ Level < STATUS_LEVELS("content_gathered")
    /\ Level >= STATUS_LEVELS("query_refined")
    /\ pc' = "s2_search"
    /\ UNCHANGED << store, locals, restarts, components >>

\* A variant that advances the status where the asset should be written.
SearchSaveStatusFirst(answers) ==
    /\ pc = "s2_search"
    /\ Level < STATUS_LEVELS("web_searched")
    /\ answers # {}
    /\ status' = "web_searched"
    /\ pc' = "s2_searched"
    /\ UNCHANGED << sample_count, checkpoint, assets, locals, restarts, components >>

SearchSave(answers) ==
    /\ pc = "s2_search"
    /\ Level < STATUS_LEVELS("web_searched")
    /\ \E r \in answers :
          assets' = [assets EXCEPT !.search_results = r]
    /\ pc' = "s2_searched"
    /\ UNCHANGED << status, sample_count, checkpoint, locals, restarts, components >>

SearchStatus ==
    /\ pc = "s2_searched"
    /\ status' = "web_searched"
    /\ pc' = "s2_scrape"
    /\ UNCHANGED << sample_count, checkpoint, assets, locals, restarts, components >>

SearchSkip ==
    /\ pc = "s2_search"
    /\ Level >= STATUS_LEVELS("web_searched")
    /\ pc' = "s2_scrape"
    /\ UNCHANGED << store, locals, restarts, components >>

FilterSave ==
    /\ pc = "s2_scrape"
    /\ Level < STATUS_LEVELS("web_scraped")
    /\ assets' = [assets EXCEPT !.filtered_results = assets.search_results]
    /\ pc' = "s2_filtered"
    /\ UNCHANGED << status, sample_count, checkpoint, locals, restarts, components >>

ScrapeSave ==
    /\ pc = "s2_filtered"
    /\ assets' = [assets EXCEPT !.scraped_content = assets.filtered_results]
    /\ pc' = "s2_scraped"
    /\ UNCHANGED << status, sample_count, checkpoint, locals, restarts, components >>

ScrapeStatus ==
    /\ pc = "s2_scraped"
    /\ status' = "web_scraped"
    /\ pc' = "s2_chunk"
    /\ UNCHANGED << sample_count, checkpoint, assets, locals, restarts, components >>

ScrapeSkip ==
    /\ pc = "s2_scrape"
    /\ Level >= STATUS_LEVELS("web_scraped")
    /\ pc' = "s2_chunk"
    /\ UNCHANGED << store, locals, restarts, components >>

\* A variant that empties the extracted topics with the new chunks.
ChunkSaveResetsTopics(counts) ==
    /\ pc = "s2_chunk"
    /\ \E n \in counts : assets' = [assets EXCEPT !.all_chunks = n,
                                                  !.all_extracted_topics = <<>>]
    /\ pc' = "s2_chunked"
    /\ UNCHANGED << status, sample_count, checkpoint, locals, restarts, components >>

\* Language filtering and chunking: any number of chunks in counts.
ChunkSave(counts) ==
    /\ pc = "s2_chunk"
    /\ \E n \in counts : assets' = [assets EXCEPT !.all_chunks = n]
    /\ pc' = "s2_chunked"
    /\ UNCHANGED << status, sample_count, checkpoint, locals, restarts, components >>

\* A variant that leaves the chunk index of the earlier chunks in place.
ChunkCheckpointKeepsIndex ==
    /\ pc = "s2_chunked"
    /\ checkpoint' = [checkpoint EXCEPT !.last_processed_chunk_index =
                         GetCheckpoint("last_processed_chunk_index", -1)]
    /\ pc' = "s2_gathered"
    /\ UNCHANGED << status, sample_count, assets, locals, restarts, components >>

ChunkCheckpoint ==
    /\ pc = "s2_chunked"
    /\ checkpoint' = [checkpoint EXCEPT !.last_processed_chunk_index = -1]
    /\ pc' = "s2_gathered"
    /\ UNCHANGED << status, sample_count, assets, locals, restarts, components >>

GatheredStatus ==
    /\ pc = "s2_gathered"
    /\ status' = "content_gathered"
    /\ pc' = "s3"
    /\ UNCHANGED << sample_count, checkpoint, assets, locals, restarts, components >>

(***************************************************************************)
(* Stage 3: topic extraction, one chunk at a time.                         *)
(***************************************************************************)
Topics == assets.all_extracted_topics

\* len(set(topics)): the number of distinct topic strings.
UniqueCount(topics) == Cardinality(Range(topics))

EnoughTopics == UniqueCount(Topics) >= required_topics

Stage3Skip ==
    /\ pc = "s3"
    /\ Level >= STATUS_LEVELS("topics_extracted")
    /\ pc' = "s4"
    /\ UNCHANGED << store, locals, restarts, components >>

Stage3AlreadyEnough ==
    /\ pc = "s3"
    /\ Level < STATUS_LEVELS("topics_extracted")
    /\ EnoughTopics
    /\ status' = "topics_extracted"
    /\ pc' = "s4"
    /\ UNCHANGED << sample_count, checkpoint, assets, locals, restarts, components >>

\* chunks_to_process = all_chunks[last_processed_chunk_index + 1:] is not empty.
Stage3Begin ==
    /\ pc = "s3"
    /\ Level < STATUS_LEVELS("topics_extracted")
    /\ ~EnoughTopics
    /\ GetCheckpoint("last_processed_chunk_index", -1) + 1 < NumChunks
    /\ l_chunk' = GetCheckpoint("last_processed_chunk_index", -1) + 1
    /\ pc' = "s3_chunk"
    /\ UNCHANGED << store, l_topic, l_index, l_data, restarts, components >>

\* No chunk is left and the topics are too few: back to query_parsed.
Stage3NoChunks ==
    /\ pc = "s3"
    /\ Level < STATUS_LEVELS("topics_extracted")
    /\ ~EnoughTopics
    /\ ~(GetCheckpoint("last_processed_chunk_index", -1) + 1 < NumChunks)
    /\ status' = "query_parsed"
    /\ pc' = "s3_clear_refined"
    /\ UNCHANGED << sample_count, checkpoint, assets, locals, restarts, components >>

\* The agent's call for chunk l_chunk and save_asset("all_extracted_topics").
ExtractChunk(answers) ==
    /\ pc = "s3_chunk"
    /\ \E raw \in answers :
          assets' = [assets EXCEPT !.all_extracted_topics =
                        MergeTopics(Topics, UniqueByKey(raw, {}))]
    /\ pc' = "s3_saved"
    /\ UNCHANGED << status, sample_count, checkpoint, locals, restarts, components >>

\* The agent re-raises what the generation service raised; the driver's
\* outer handler saves the state and the run ends.
ExtractRaises ==
    /\ pc = "s3_chunk"
    /\ pc' = "failed"
    /\ UNCHANGED << store, locals, restarts, components >>

\* update_checkpoint, save_state, then the test that ends the chunk loop.
ExtractCheckpoint ==
    /\ pc = "s3_saved"
    /\ checkpoint' = [checkpoint EXCEPT
                         !.topics_found = Len(Topics),
                         !.last_processed_chunk_index = l_chunk]
    /\ IF ~EnoughTopics /\ l_chunk + 1 < NumChunks
       THEN l_chunk' = l_chunk + 1 /\ pc' = "s3_chunk"
       ELSE l_chunk' = l_chunk /\ pc' = "s3_after"
    /\ UNCHANGED << status, sample_count, assets, l_topic, l_index, l_data,
                    restarts, components >>

Stage3Insufficient ==
    /\ pc = "s3_after"
    /\ ~EnoughTopics
    /\ status' = "query_parsed"
    /\ pc' = "s3_clear_refined"
    /\ UNCHANGED << sample_count, checkpoint, assets, locals, restarts, components >>

\* A variant that goes on to record generation without counting the topics.
Stage3SufficientUncounted ==
    /\ pc = "s3_after"
    /\ status' = "topics_extracted"
    /\ pc' = "s4"
    /\ UNCHANGED << sample_count, checkpoint, assets, locals, restarts, components >>

Stage3Sufficient ==
    /\ pc = "s3_after"
    /\ EnoughTopics
    /\ status' = "topics_extracted"
    /\ pc' = "s4"
    /\ UNCHANGED << sample_count, checkpoint, assets, locals, restarts, components >>

ClearRefined ==
    /\ pc = "s3_clear_refined"
    /\ assets' = [assets EXCEPT !.refined_queries = Absent]
    /\ pc' = "s3_clear_search"
    /\ UNCHANGED << status, sample_count, checkpoint, locals, restarts, components >>

\* A variant that clears the extracted topics as well.
ClearSearchAndTopics ==
    /\ pc = "s3_clear_search"
    /\ assets' = [assets EXCEPT !.search_results = Absent,
                                !.all_extracted_topics = <<>>]
    /\ pc' = "loop"
    /\ UNCHANGED << status, sample_count, checkpoint, locals, restarts, components >>

\* clear_asset("search_results"), then `continue`.
ClearSearch ==
    /\ pc = "s3_clear_search"
    /\ assets' = [assets EXCEPT !.search_results = Absent]
    /\ pc' = "loop"
    /\ UNCHANGED << status, sample_count, checkpoint, locals, restarts, components >>

(***************************************************************************)
(* Stage 4: synthetic data generation, one topic at a time.                *)
(***************************************************************************)
SyntheticData == assets.synthetic_data

\* An answer of the generation service that repeats one record.
RepeatedItems(topic, n) == [j \in 1..n |-> <<topic, 1>>]

\* What the generator agent may return for a topic: it absorbs the errors
\* of the generation service, so a failed call is an empty list.
AnyAnswers ==
    [t \in TopicTexts |->
        { GenItems(t, n) : n \in 0..RowsPerSubtopic }
           \cup { RepeatedItems(t, RowsPerSubtopic) }]

Stage4Skip ==
    /\ pc = "s4"
    /\ Level >= STATUS_LEVELS("data_generated")
    /\ pc' = "check"
    /\ UNCHANGED << store, locals, restarts, components >>

\* A variant that starts at the first topic whatever the checkpoint says.
Stage4BeginFromFirst ==
    /\ pc = "s4"
    /\ Level < STATUS_LEVELS("data_generated")
    /\ GetCheckpoint("last_processed_topic_index", -1) + 1 < Len(Topics)
    /\ l_topic' = 0
    /\ l_index' = -1
    /\ l_data' = SyntheticData
    /\ pc' = "s4_topic"
    /\ UNCHANGED << store, l_chunk, restarts, components >>

\* topics_to_process = all_topics[last_processed_topic_index + 1:] is not empty.
Stage4Begin ==
    /\ pc = "s4"
    /\ Level < STATUS_LEVELS("data_generated")
    /\ GetCheckpoint("last_processed_topic_index", -1) + 1 < Len(Topics)
    /\ l_topic' = GetCheckpoint("last_processed_topic_index", -1) + 1
    /\ l_index' = GetCheckpoint("last_processed_topic_index", -1)
    /\ l_data' = SyntheticData
    /\ pc' = "s4_topic"
    /\ UNCHANGED << store, l_chunk, restarts, components >>

Stage4NoTopics ==
    /\ pc = "s4"
    /\ Level < STATUS_LEVELS("data_generated")
    /\ ~(GetCheckpoint("last_processed_topic_index", -1) + 1 < Len(Topics))
    /\ status' = "data_generated"
    /\ pc' = "check"
    /\ UNCHANGED << sample_count, checkpoint, assets, locals, restarts, components >>

\* A variant that keeps the new records only.
ExtendDataNewOnly(data, new) == new

\* The records the driver keeps after one topic.
ExtendData(data, new) == data \o new

\* agent.execute for topic l_topic, current_topic_index += 1 and
\* save_asset("synthetic_data").
GenerateTopic(answers) ==
    /\ pc = "s4_topic"
    /\ \E new \in answers[Topics[l_topic + 1]] :
          /\ l_data' = ExtendData(l_data, new)
          /\ assets' = [assets EXCEPT !.synthetic_data = ExtendData(l_data, new)]
    /\ l_index' = l_index + 1
    /\ pc' = "s4_saved"
    /\ UNCHANGED << status, sample_count, checkpoint, l_chunk, l_topic,
                    restarts, components >>

\* The same, with save_asset raising: the handler of the topic loop runs.
GenerateSaveFails(answers) ==
    /\ pc = "s4_topic"
    /\ \E new \in answers[Topics[l_topic + 1]] :
          l_data' = ExtendData(l_data, new)
    /\ l_index' = l_index + 1
    /\ pc' = "s4_except"
    /\ UNCHANGED << store, l_chunk, l_topic, restarts, components >>

\* update_checkpoint, save_state, then the test that ends the topic loop.
GenerateCheckpoint ==
    /\ pc = "s4_saved"
    /\ checkpoint' = [checkpoint EXCEPT
                         !.last_processed_topic_index = l_index,
                         !.synthetic_data_generated_count = Len(l_data)]
    /\ IF Len(l_data) < sample_count /\ l_topic + 1 < Len(Topics)
       THEN l_topic' = l_topic + 1 /\ pc' = "s4_topic"
       ELSE l_topic' = l_topic /\ pc' = "check"
    /\ UNCHANGED << status, sample_count, assets, l_chunk, l_index, l_data,
                    restarts, components >>

\* except Exception: the index moves on, the state is saved, the loop ends.
GenerateExcept ==
    /\ pc = "s4_except"
    /\ l_index' = l_index + 1
    /\ checkpoint' = [checkpoint EXCEPT
                         !.last_processed_topic_index = l_index + 1,
                         !.synthetic_data_generated_count = Len(l_data)]
    /\ pc' = "check"
    /\ UNCHANGED << status, sample_count, assets, l_chunk, l_topic, l_data,
                    restarts, components >>

(***************************************************************************)
(* The end of one iteration of the generation loop.                        *)
(***************************************************************************)
\* A variant that trusts the checkpointed count instead of the asset.
TargetMetByCheckpoint ==
    GetCheckpoint("synthetic_data_generated_count", 0) >= sample_count

TargetMet == Len(SyntheticData) >= sample_count

\* update_status("completed"), break, and the final save_state.
Complete ==
    /\ pc = "check"
    /\ TargetMet
    /\ status' = "completed"
    /\ pc' = "done"
    /\ UNCHANGED << sample_count, checkpoint, assets, locals, restarts, components >>

LoopAgain ==
    /\ pc = "check"
    /\ ~TargetMet
    /\ pc' = "loop"
    /\ UNCHANGED << store, locals, restarts, components >>

(***************************************************************************)
(* The process is killed, or has ended, and the driver is run again on the *)
(* persisted state: nothing but the store survives.                        *)
(***************************************************************************)
Restart ==
    /\ pc # "start"
    /\ restarts < MaxRestarts
    /\ restarts' = restarts + 1
    /\ pc' = "start"
    /\ l_chunk' = 0
    /\ l_topic' = 0
    /\ l_index' = -1
    /\ l_data' = <<>>
    /\ UNCHANGED << store, components >>

Stage1 == Stage1Parse \/ Stage1Skip \/ Stage1Checkpoint

\* The steps of stage 2 that call no service.
Stage2Store ==
    \/ Stage2Skip
    \/ RefineStatus \/ RefineSkip
    \/ SearchStatus \/ SearchSkip
    \/ FilterSave \/ ScrapeSave \/ ScrapeStatus \/ ScrapeSkip
    \/ ChunkCheckpoint \/ GatheredStatus

\* The steps of stage 3 that call no service.
Stage3Store ==
    \/ Stage3Skip \/ Stage3AlreadyEnough \/ Stage3Begin \/ Stage3NoChunks
    \/ ExtractCheckpoint
    \/ Stage3Insufficient \/ Stage3Sufficient
    \/ ClearRefined \/ ClearSearch

\* The steps of stage 4 that call no service.
Stage4Store ==
    \/ Stage4Skip \/ Stage4Begin \/ Stage4NoTopics
    \/ GenerateCheckpoint

\* The steps of the driver that depend on no answer of a service.
Internal ==
    \/ Stage1 \/ LoopHead \/ Stage2Store \/ Stage3Store \/ Stage4Store
    \/ Complete \/ LoopAgain

(***************************************************************************)
(* The driver with services that may answer anything and may fail.         *)
(***************************************************************************)
Run ==
    \/ Internal
    \/ RefineSave(Responses) \/ SearchSave(Responses)
    \/ ChunkSave(0..MaxChunks)
    \/ ExtractChunk(RawTopicLists) \/ ExtractRaises
    \/ GenerateTopic(AnyAnswers) \/ GenerateSaveFails(AnyAnswers)
    \/ GenerateExcept

Next == Run \/ Restart

Spec == Init /\ [][Next]_vars

\* The driver is a sequential program: while it has a step to take it takes
\* one.  Kills and re-runs are not forced.
FairSpec == Spec /\ WF_vars(Run)

(***************************************************************************)
(* Properties of the driver.                                               *)
(***************************************************************************)
LastChunk == GetCheckpoint("last_processed_chunk_index", -1)
LastTopic == GetCheckpoint("last_processed_topic_index", -1)

\* DataCollectionAgent._calculate_content_hash: the digest of the record's
\* serialized content, equal for two records exactly when their contents are.
ContentKey(record) == << "md5", record >>

\* The items of an answer of the refinement or the search service: two
\* answers share items and neither holds all items of the other.
ResponseItems(r) ==
    CASE r = "r1" -> { "x", "y" }
      [] r = "r2" -> { "y", "z" }
      [] OTHER    -> {}

\* C1: whenever the status is `completed`, synthetic_data holds at least
\* sample_count records.
C1_CompletedOnlyAtTarget ==
    status = "completed" => Len(SyntheticData) >= sample_count

\* C1 witness: a run that ended `completed`, after a kill, with records
\* of more than one topic.
C1_Witness ==
    /\ pc = "done"
    /\ status = "completed"
    /\ restarts > 0
    /\ LastTopic >= 1
    /\ Len(SyntheticData) >= sample_count

\* C3: when the loop comes round with every topic dispatched by stage 4 and
\* the record count still below the target, the status has been lowered so
\* that stage 2 runs again in this iteration.
C3_ReentersStage2 ==
    ( /\ pc = "s2"
      /\ checkpoint.last_processed_topic_index # Unset
      /\ LastTopic + 1 >= Len(Topics)
      /\ ~TargetMet )
    => Level < STATUS_LEVELS("content_gathered")

\* C6: no two records of synthetic_data have the same content key.
C6_NoDuplicateRecords ==
    \A i, j \in 1..Len(SyntheticData) :
        i # j => ContentKey(SyntheticData[i]) # ContentKey(SyntheticData[j])

\* C7: no two entries of all_extracted_topics have the same case-folded,
\* whitespace-trimmed key.
C7_TopicsUniqueByKey ==
    \A i, j \in 1..Len(Topics) :
        i # j => TopicKey(Topics[i]) # TopicKey(Topics[j])

\* An accumulating asset keeps its entries and its length.
Keeps(old, new) == Len(new) >= Len(old) /\ Range(old) \subseteq Range(new)

\* C8, for the accumulating assets: in every step, kills and re-runs included, synthetic_data
\* and all_extracted_topics keep every entry they hold and do not get
\* shorter; so a re-executed extraction or generation stage writes an asset
\* that contains the one written before.
C8_AccumulatedNeverRegress ==
    [][ /\ Keeps(Topics, Topics')
        /\ Keeps(SyntheticData, SyntheticData') ]_vars

\* C8 witness: after a kill, stage 4 has written synthetic_data over an asset
\* that already held records.
C8_Witness ==
    /\ restarts > 0
    /\ pc = "s4_saved"
    /\ Len(SyntheticData) > Len(GenItems(Topics[1], RowsPerSubtopic))
    /\ Len(Topics) >= 2

\* C8, for every stage: also a re-executed stage 2 sub-stage, which finds its asset
\* written and the level not advanced, writes an asset that contains every
\* item of the one written before.
C8_ReexecutedStageKeepsItems ==
    [][ /\ Keeps(Topics, Topics')
        /\ Keeps(SyntheticData, SyntheticData')
        /\ ( /\ pc = "s2" /\ pc' = "s2_refined"
             /\ assets.refined_queries # Absent )
           => ResponseItems(assets.refined_queries)
                 \subseteq ResponseItems(assets'.refined_queries)
        /\ ( /\ pc = "s2_search" /\ pc' = "s2_searched"
             /\ assets.search_results # Absent
             /\ status = "query_refined" )
           => ResponseItems(assets.search_results)
                 \subseteq ResponseItems(assets'.search_results) ]_vars

\* C9: the chunk and the topic that are dispatched are the ones right after
\* the persisted index, never one at or before it, and no step removes an
\* entry from the assets: a kill costs at most the item in flight.
C9_ResumeAfterCommitted ==
    /\ [](pc = "s3_chunk" => l_chunk = LastChunk + 1)
    /\ [](pc = "s4_topic" => l_topic = LastTopic + 1)
    /\ [][ /\ Keeps(Topics, Topics')
           /\ Keeps(SyntheticData, SyntheticData') ]_vars

\* C9 witness: after a kill, stage 4 dispatches a topic that follows a
\* committed one, the chunks of the round having been committed as well.
C9_Witness ==
    /\ restarts > 0
    /\ pc = "s4_topic"
    /\ l_topic >= 1
    /\ LastChunk >= 1
    /\ Len(SyntheticData) > 0

\* C10: a status at or above the level of a stage 2 sub-stage implies that
\* the sub-stage's asset is in the store.
C10_AssetBeforeStatus ==
    /\ Level >= STATUS_LEVELS("query_refined")
          => assets.refined_queries # Absent
    /\ Level >= STATUS_LEVELS("web_searched")
          => assets.search_results # Absent
    /\ Level >= STATUS_LEVELS("web_scraped")
          => assets.scraped_content # Absent
    /\ Level >= STATUS_LEVELS("content_gathered")
          => assets.all_chunks # NoChunks

\* C10 witness: a second gathering round, after the backward transition
\* cleared the assets, has reached content_gathered again.
C10_Witness ==
    /\ status = "content_gathered"
    /\ pc = "s3"
    /\ Len(Topics) > 0
    /\ LastChunk = -1
    /\ checkpoint.topics_found # Unset

\* C2: every execution of the generation loop either ends (the run is
\* `done` or `failed`) or keeps changing the store; it never iterates
\* forever over an unchanged store.
C2_LoopStopsOrProgresses ==
    \/ <>(pc \in {"done", "failed"})
    \/ []<><<store' # store>>_vars

(***************************************************************************)
(* One uninterrupted run of the driver with a generation service that      *)
(* returns the same number of new records for every topic, and content     *)
(* services that never run dry: every round has a chunk and every chunk a  *)
(* topic of a key not seen yet.                                            *)
(***************************************************************************)
\* The records per topic of this service: fewer than the rows per topic
\* that required_topics is computed from.
ServiceRecords == RowsPerSubtopic - 1

ConvAnswers == [t \in TopicTexts |-> { GenItems(t, ServiceRecords) }]

SeenKeys == { TopicKey(t) : t \in Range(Topics) }

FreshTopicLists ==
    LET fresh == { raw \in RawTopicLists :
                     /\ raw # <<>>
                     /\ UniqueByKey(raw, {}) = raw
                     /\ \A i \in 1..Len(raw) : TopicKey(raw[i]) \notin SeenKeys }
    IN  IF fresh = {} THEN RawTopicLists \ {<<>>} ELSE fresh

\* The steps a run takes that starts on a fresh store and is not killed:
\* no stage finds its level reached before the loop has reached it.
ConvRun ==
    \/ Stage1Parse \/ Stage1Checkpoint \/ LoopHead
    \/ Stage2Skip \/ RefineSave(Responses) \/ RefineStatus
    \/ SearchSave(Responses) \/ SearchStatus
    \/ FilterSave \/ ScrapeSave \/ ScrapeStatus
    \/ ChunkSave(1..MaxChunks) \/ ChunkCheckpoint \/ GatheredStatus
    \/ Stage3Skip \/ Stage3Begin
    \/ ExtractChunk(FreshTopicLists) \/ ExtractCheckpoint
    \/ Stage3Insufficient \/ Stage3Sufficient \/ ClearRefined \/ ClearSearch
    \/ Stage4Skip \/ Stage4Begin \/ Stage4NoTopics
    \/ GenerateTopic(ConvAnswers) \/ GenerateCheckpoint
    \/ Complete \/ LoopAgain

ConvSpec == Init /\ [][ConvRun]_vars /\ WF_vars(ConvRun)

CeilDiv(a, b) == (a + b - 1) \div b

\* C4: with ServiceRecords new records for every topic and topics in supply,
\* the run reaches `completed`, and when it has, at most
\* ceil(sample_count / ServiceRecords) topics were dispatched.
C4_ConvergesWithinBound ==
    /\ <>(status = "completed")
    /\ [](status = "completed"
             => LastTopic + 1 <= CeilDiv(sample_count, ServiceRecords))

(***************************************************************************)
(* The driver with services that answer the same request the same way      *)
(* each time, and kills between any two store operations.                  *)
(***************************************************************************)
\* The chunks of every round, and the topics of each chunk.
DetChunkCount == MaxChunks

DetChunkTopics(i) == IF i = 0 THEN << <<"a">> >> ELSE << <<"b">> >>

\* The records of each topic: the first topic falls short of the rows per
\* topic, the others do not.
DetRecords(t) == IF t = <<"a">> THEN ServiceRecords ELSE RowsPerSubtopic

DetAnswers == [t \in TopicTexts |-> { GenItems(t, DetRecords(t)) }]

\* The steps of the driver with these services: every round yields the
\* required topics, so the backward transition of stage 3 is never taken.
DetRun ==
    \/ Stage1 \/ LoopHead \/ Stage2Store
    \/ Stage3Skip \/ Stage3AlreadyEnough \/ Stage3Begin
    \/ ExtractCheckpoint \/ Stage3Sufficient
    \/ Stage4Store \/ Complete \/ LoopAgain
    \/ RefineSave({"r1"}) \/ SearchSave({"r1"})
    \/ ChunkSave({DetChunkCount})
    \/ ExtractChunk({DetChunkTopics(l_chunk)})
    \/ GenerateTopic(DetAnswers)

DetSpec == Init /\ [][DetRun \/ Restart]_vars

\* The topics one uninterrupted run extracts: chunk after chunk until the
\* required number of topics is there.
RECURSIVE UninterruptedTopics(_, _)
UninterruptedTopics(i, acc) ==
    IF UniqueCount(acc) >= required_topics \/ i >= DetChunkCount
    THEN acc
    ELSE UninterruptedTopics(
             i + 1, MergeTopics(acc, UniqueByKey(DetChunkTopics(i), {})))

\* The records one uninterrupted run generates: topic after topic until the
\* target is met.
RECURSIVE UninterruptedData(_, _, _)
UninterruptedData(i, acc, topics) ==
    IF Len(acc) >= sample_count \/ i >= Len(topics)
    THEN acc
    ELSE UninterruptedData(
             i + 1,
             acc \o GenItems(topics[i + 1], DetRecords(topics[i + 1])),
             topics)

\* C5: a run that ends, however often it was killed and run again, ends
\* with the topics and the records of one uninterrupted run.
C5_ResumeEqualsUninterrupted ==
    pc = "done" =>
        /\ Topics = UninterruptedTopics(0, <<>>)
        /\ SyntheticData = UninterruptedData(0, <<>>, UninterruptedTopics(0, <<>>))

(***************************************************************************)
(* Resume: which steps call a service, and at which level.                 *)
(***************************************************************************)
\* The steps of the driver in which a service is called.
ParseCall == pc = "start" /\ pc' = "s1_checkpoint" /\ sample_count' # sample_count
RefineCall == pc = "s2" /\ pc' = "s2_refined"
SearchCall == pc = "s2_search" /\ pc' = "s2_searched"
ScrapeCall == pc \in {"s2_scrape", "s2_filtered"} /\ pc' \in {"s2_filtered", "s2_scraped"}
ExtractCall == pc = "s3_chunk" /\ pc' \in {"s3_saved", "failed"}
GenerateCall == pc = "s4_topic" /\ pc' \in {"s4_saved", "s4_except"}

\* C11, for the level at the entry of a stage: a step that calls the service
\* of a stage or sub-stage is taken only while the current level is below
\* that stage's level, and a sub-stage that is skipped finds its asset in
\* the store.
C11_NoCallAtReachedLevel ==
    [][ /\ ParseCall => Level < STATUS_LEVELS("query_parsed")
        /\ RefineCall => Level < STATUS_LEVELS("query_refined")
        /\ SearchCall => Level < STATUS_LEVELS("web_searched")
        /\ ScrapeCall => Level < STATUS_LEVELS("web_scraped")
        /\ ExtractCall => Level < STATUS_LEVELS("topics_extracted")
        /\ GenerateCall => Level < STATUS_LEVELS("data_generated")
        /\ (pc = "s2" /\ pc' = "s2_search") => assets.refined_queries # Absent
        /\ (pc = "s2_search" /\ pc' = "s2_scrape")
              => assets.search_results # Absent
        /\ (pc = "s2_scrape" /\ pc' = "s2_chunk")
              => assets.scraped_content # Absent
        /\ (pc = "s2" /\ pc' = "s3") => assets.all_chunks # NoChunks ]_vars

\* C11 witness: a process started on a run at content_gathered, with chunks
\* already committed, has skipped stage 2 and stands before stage 3.
C11_Witness ==
    /\ restarts > 0
    /\ pc = "s3"
    /\ status = "content_gathered"
    /\ LastChunk >= 0

\* C11, for the level at the start of the process: a process started at a
\* level of content_gathered or above calls neither the refinement, nor the
\* search, nor the scraping service for as long as it runs.
C11_NoCallBelowStartLevel ==
    \A k \in 0..MaxRestarts :
        []( ( /\ pc = "start"
              /\ restarts = k
              /\ Level >= STATUS_LEVELS("content_gathered") )
            => [](restarts = k
                    => pc \notin {"s2_refined", "s2_searched", "s2_filtered"}) )

(***************************************************************************)
(* The backward transition of stage 3.                                     *)
(***************************************************************************)
\* Every chunk of the round has been processed.
ChunksExhausted == LastChunk + 1 >= NumChunks

\* The step that lowers the status, and the steps of the transition.
LowersStatus == STATUS_LEVELS(status') < STATUS_LEVELS(status)
InBackwardTransition ==
    LowersStatus \/ pc \in {"s3_clear_refined", "s3_clear_search"}

\* C12: the status is lowered, to query_parsed, only with every chunk
\* processed and too few unique topics, and stage 3 in that situation does
\* lower it; the steps of the transition clear refined_queries and
\* search_results and change neither all_extracted_topics, nor
\* synthetic_data, nor last_processed_topic_index.
C12_BackwardTransition ==
    [][ /\ LowersStatus
          => /\ status' = "query_parsed"
             /\ ChunksExhausted
             /\ ~EnoughTopics
        /\ ( /\ pc \in {"s3", "s3_after"}
             /\ pc' # "start"
             /\ Level < STATUS_LEVELS("topics_extracted")
             /\ ChunksExhausted
             /\ ~EnoughTopics )
          => LowersStatus
        /\ (pc = "s3_clear_refined" /\ pc' # "start")
          => assets'.refined_queries = Absent
        /\ (pc = "s3_clear_search" /\ pc' # "start")
          => /\ assets'.refined_queries = Absent
             /\ assets'.search_results = Absent
        /\ InBackwardTransition
          => /\ Topics' = Topics
             /\ SyntheticData' = SyntheticData
             /\ checkpoint'.last_processed_topic_index
                   = checkpoint.last_processed_topic_index ]_vars

\* C12 witness: the transition has been taken after chunks were processed
\* and topics extracted: both assets are cleared and the topics are kept.
C12_Witness ==
    /\ pc = "loop"
    /\ status = "query_parsed"
    /\ assets.refined_queries = Absent
    /\ assets.search_results = Absent
    /\ Len(Topics) > 0
    /\ LastChunk >= 0

(***************************************************************************)
(* The order of the levels.                                                *)
(***************************************************************************)
\* The driver's positions inside stage 3 and inside stage 4.
InStage3 == pc \in {"s3", "s3_chunk", "s3_saved", "s3_after"}
InStage4 == pc \in {"s4", "s4_topic", "s4_saved", "s4_except"}

OrchChunkCounts == 0..(MaxChunks + MaxWorkers)

\* The keys of a list of topics.
KeysOf(topics) == { TopicKey(t) : t \in Range(topics) }

\* for topic in topics: admit it if its key is not in processed_chunk_ids.
RECURSIVE AdmitTopics(_, _, _)
AdmitTopics(all_topics, processed, topics) ==
    IF topics = <<>> THEN all_topics
    ELSE IF TopicKey(Head(topics)) \in processed
         THEN AdmitTopics(all_topics, processed, Tail(topics))
         ELSE AdmitTopics(Append(all_topics, Head(topics)),
                          processed \cup {TopicKey(Head(topics))},
                          Tail(topics))

\* The call starts: required_topics, the chunks, the empty result.
ExtractionStart ==
    /\ orch = Idle
    /\ pc = "start"
    /\ \E w \in 1..MaxWorkers, s \in 1..MaxSample, n \in OrchChunkCounts :
          orch' = [ phase |-> IF n = 0 THEN "topics_returned" ELSE "extract",
                    max_workers |-> w,
                    required_topics |-> RequiredTopics(s, RowsPerSubtopic),
                    num_chunks |-> n,
                    chunk_index |-> 0,
                    all_topics |-> <<>>,
                    processed_chunk_ids |-> {},
                    pending |-> {},
                    batch |-> {},
                    returned |-> {},
                    failed |-> 0 ]
    /\ UNCHANGED << driver, gen, call, gemini >>

\* The number of chunks of the next batch.
BatchSize == IF orch.num_chunks - orch.chunk_index < orch.max_workers
             THEN orch.num_chunks - orch.chunk_index
             ELSE orch.max_workers

\* The head of the while loop holds: one batch is distributed and submitted.
DispatchBatch ==
    /\ orch.phase = "extract"
    /\ Len(orch.all_topics) < orch.required_topics
    /\ orch.chunk_index < orch.num_chunks
    /\ orch' = [orch EXCEPT
                   !.phase = "collect",
                   !.pending = 1..BatchSize,
                   !.batch = orch.chunk_index..(orch.chunk_index + BatchSize - 1),
                   !.chunk_index = orch.chunk_index + BatchSize]
    /\ UNCHANGED << driver, gen, call, gemini >>

\* A variant in which the failure of an agent ends the call.
CollectFailureRaises ==
    /\ orch.phase = "collect"
    /\ orch.pending # {}
    /\ orch' = [orch EXCEPT !.phase = "raised", !.failed = @ + 1]
    /\ UNCHANGED << driver, gen, call, gemini >>

\* future.result() raises: the failure is logged.
CollectFailure ==
    /\ orch.phase = "collect"
    /\ \E a \in orch.pending :
          orch' = [orch EXCEPT !.pending = @ \ {a}, !.failed = @ + 1]
    /\ UNCHANGED << driver, gen, call, gemini >>

\* A variant that drops the futures still pending once there are enough topics.
CollectTopicsCancels(answers) ==
    /\ orch.phase = "collect"
    /\ \E a \in orch.pending, raw \in answers :
          orch' = [orch EXCEPT
                     !.pending =
                         IF Len(AdmitTopics(orch.all_topics,
                                            orch.processed_chunk_ids,
                                            UniqueByKey(raw, {})))
                               >= orch.required_topics
                         THEN {} ELSE @ \ {a},
                     !.all_topics =
                         AdmitTopics(@, orch.processed_chunk_ids,
                                     UniqueByKey(raw, {})),
                     !.processed_chunk_ids = @ \cup KeysOf(raw),
                     !.returned = @ \cup KeysOf(raw)]
    /\ UNCHANGED << driver, gen, call, gemini >>

\* future.result() returns the agent's topics: the new keys are admitted.
CollectTopics(answers) ==
    /\ orch.phase = "collect"
    /\ \E a \in orch.pending, raw \in answers :
          orch' = [orch EXCEPT
                     !.pending = @ \ {a},
                     !.all_topics =
                         AdmitTopics(@, orch.processed_chunk_ids,
                                     UniqueByKey(raw, {})),
                     !.processed_chunk_ids = @ \cup KeysOf(raw),
                     !.returned = @ \cup KeysOf(raw)]
    /\ UNCHANGED << driver, gen, call, gemini >>

\* Every future of the batch has completed: break if there are enough topics.
BatchEnd ==
    /\ orch.phase = "collect"
    /\ orch.pending = {}
    /\ orch' = [orch EXCEPT
                   !.phase = IF Len(orch.all_topics) >= orch.required_topics
                             THEN "topics_returned" ELSE "extract"]
    /\ UNCHANGED << driver, gen, call, gemini >>

\* The head of the while loop fails: return unique_topics.
ExtractionReturn ==
    /\ orch.phase = "extract"
    /\ ~( /\ Len(orch.all_topics) < orch.required_topics
          /\ orch.chunk_index < orch.num_chunks )
    /\ orch' = [orch EXCEPT !.phase = "topics_returned"]
    /\ UNCHANGED << driver, gen, call, gemini >>

(***************************************************************************)
(* ParallelProcessingOrchestrator.run_parallel_synthetic_generation.       *)
(***************************************************************************)
TopicPool == << <<"a">>, <<"A", " ">>, <<"b">> >>

\* The topic lists of a call: up to one topic more than there are workers.
GenTopicList(n) == [j \in 1..n |-> TopicPool[((j - 1) % Len(TopicPool)) + 1]]

\* (topics * multiplier)[:required_topics]
Replicate(topics, required) ==
    [j \in 1..required |-> topics[((j - 1) % Len(topics)) + 1]]

\* topics[start_idx:end_idx] of agent i of w (i counted from 1).
TopicSet(topics, w, i) ==
    LET per == Len(topics) \div w
        remainder == Len(topics) % w
        before == (i - 1) * per + (IF i - 1 < remainder THEN i - 1 ELSE remainder)
        count == per + (IF i - 1 < remainder THEN 1 ELSE 0)
    IN  SubSeq(topics, before + 1, before + count)

\* What an agent returns for its topics when each yields k records.
RECURSIVE AgentData(_, _)
AgentData(topics, k) ==
    IF topics = <<>> THEN <<>>
    ELSE GenItems(Head(topics), k) \o AgentData(Tail(topics), k)

\* The call starts: the topics are replicated if they are too few and are
\* distributed; every agent that has topics is submitted.
GenerationStart ==
    /\ orch = Idle
    /\ pc = "start"
    /\ \E w \in 1..MaxWorkers, s \in 1..MaxSample, n \in 0..(MaxWorkers + 1) :
          LET required == RequiredTopics(s, RowsPerSubtopic)
              topics == IF n = 0 THEN <<>>
                        ELSE IF n < required
                             THEN Replicate(GenTopicList(n), required)
                             ELSE GenTopicList(n)
              sets == [i \in 1..w |-> TopicSet(topics, w, i)]
              submitted == { i \in 1..w : sets[i] # <<>> }
          IN  orch' = [ phase |-> IF n = 0 THEN "lists_returned"
                                  ELSE "gen_collect",
                        max_workers |-> w,
                        input_topics |-> GenTopicList(n),
                        topic_sets |-> sets,
                        pending |-> submitted,
                        dispatched |-> Cardinality(submitted),
                        synthetic_data_lists |->
                            IF n = 0 THEN << <<>>, <<>>, <<>> >> ELSE <<>>,
                        outputs |-> {},
                        failed |-> {} ]
    /\ UNCHANGED << driver, gen, call, gemini >>

\* future.result() returns the agent's records.
GenCollect ==
    /\ orch.phase = "gen_collect"
    /\ \E a \in orch.pending, k \in 0..RowsPerSubtopic :
          LET data == AgentData(orch.topic_sets[a], k)
          IN  orch' = [orch EXCEPT
                         !.pending = @ \ {a},
                         !.synthetic_data_lists = Append(@, data),
                         !.outputs = @ \cup { <<a, data>> }]
    /\ UNCHANGED << driver, gen, call, gemini >>

\* future.result() raises: an empty list stands for the agent.
GenCollectFailure ==
    /\ orch.phase = "gen_collect"
    /\ \E a \in orch.pending :
          orch' = [orch EXCEPT
                     !.pending = @ \ {a},
                     !.synthetic_data_lists = Append(@, <<>>),
                     !.failed = @ \cup {a}]
    /\ UNCHANGED << driver, gen, call, gemini >>

GenerationReturn ==
    /\ orch.phase = "gen_collect"
    /\ orch.pending = {}
    /\ orch' = [orch EXCEPT !.phase = "lists_returned"]
    /\ UNCHANGED << driver, gen, call, gemini >>

\* The caller has the result; the orchestrator is free for the next call.
OrchDone ==
    /\ orch.phase \in {"topics_returned", "lists_returned"}
    /\ orch' = Idle
    /\ UNCHANGED << driver, gen, call, gemini >>

\* The orchestrator, with agents that may return anything and may raise.
OrchNext ==
    \/ ExtractionStart \/ DispatchBatch
    \/ CollectTopics(RawTopicLists) \/ CollectFailure
    \/ BatchEnd \/ ExtractionReturn
    \/ GenerationStart \/ GenCollect \/ GenCollectFailure \/ GenerationReturn
    \/ OrchDone

OrchSpec == Init /\ [][OrchNext]_vars

\* C14: a call in which agents have failed does not raise: it comes to its
\* return, and there the topics of every agent that returned are admitted
\* (by key), the list of record lists has one entry for each agent that was
\* submitted, the records of every agent that returned are among them, and
\* an empty list stands for each agent that failed.
C14_FailuresAreIsolated ==
    /\ orch.phase # "raised"
    /\ (orch.phase = "topics_returned" /\ orch.num_chunks > 0)
          => orch.returned \subseteq KeysOf(orch.all_topics)
    /\ (orch.phase = "lists_returned" /\ orch.dispatched > 0)
          => /\ Len(orch.synthetic_data_lists) = orch.dispatched
             /\ \A o \in orch.outputs :
                   \E i \in 1..Len(orch.synthetic_data_lists) :
                       orch.synthetic_data_lists[i] = o[2]
             /\ Cardinality({ i \in 1..Len(orch.synthetic_data_lists) :
                                 orch.synthetic_data_lists[i] = <<>> })
                   >= Cardinality(orch.failed)

\* C14 witness, extraction: a call has returned in which an agent failed and
\* another agent's topics were admitted.
C14_Witness ==
    /\ orch.phase = "topics_returned"
    /\ orch.num_chunks > 0
    /\ orch.failed > 0
    /\ orch.all_topics # <<>>

\* C16: in stage 3 a generation-service failure for one chunk does not end the
\* run: the step that calls the service for a chunk leads to that chunk's
\* commit point, from which the driver goes on to the next chunk (stated for
\* a chunk that is not the last one).
C16_ChunkFailureDoesNotEndRun ==
    [][ExtractCall /\ l_chunk + 1 < NumChunks => pc' = "s3_saved"]_vars

(***************************************************************************)
(* SyntheticDataGeneratorAgent.execute: the loop over the agent's topics.  *)
(***************************************************************************)
\* The topic lists of a call: longer than one topic.
AgentTopicLists == SeqsUpTo(TopicTexts, MaxTopicsPerChunk + 1) \ {<<>>}

GenAgentStart ==
    /\ gen = Idle
    /\ pc = "start"
    /\ \E topics \in AgentTopicLists :
          gen' = [ phase |-> "loop",
                   topics |-> topics,
                   i |-> 0,
                   synthetic_data_points |-> <<>>,
                   attempted |-> 0,
                   successful_generations |-> 0,
                   failed_generations |-> 0 ]
    /\ UNCHANGED << driver, orch, call, gemini >>

\* generate_synthetic_data returns k > 0 items for topic i.
GenAgentItems ==
    /\ gen.phase = "loop"
    /\ gen.i < Len(gen.topics)
    /\ \E k \in 1..RowsPerSubtopic :
          gen' = [gen EXCEPT
                    !.i = @ + 1,
                    !.attempted = @ + 1,
                    !.successful_generations = @ + 1,
                    !.synthetic_data_points =
                        @ \o GenItems(gen.topics[gen.i + 1], k)]
    /\ UNCHANGED << driver, orch, call, gemini >>

\* generate_synthetic_data returns no item (no JSON list in the response).
GenAgentEmpty ==
    /\ gen.phase = "loop"
    /\ gen.i < Len(gen.topics)
    /\ gen' = [gen EXCEPT
                  !.i = @ + 1,
                  !.attempted = @ + 1,
                  !.failed_generations = @ + 1]
    /\ UNCHANGED << driver, orch, call, gemini >>

\* generate_synthetic_data raises (generate_text has used up its attempts):
\* except Exception, break, and the points so far are returned.
GenAgentRaises ==
    /\ gen.phase = "loop"
    /\ gen.i < Len(gen.topics)
    /\ gen' = [gen EXCEPT !.attempted = @ + 1, !.phase = "returned"]
    /\ UNCHANGED << driver, orch, call, gemini >>

\* The loop has gone through the topics.
GenAgentReturn ==
    /\ gen.phase = "loop"
    /\ gen.i = Len(gen.topics)
    /\ gen' = [gen EXCEPT !.phase = "returned"]
    /\ UNCHANGED << driver, orch, call, gemini >>

GenAgentDone ==
    /\ gen.phase = "returned"
    /\ gen' = Idle
    /\ UNCHANGED << driver, orch, call, gemini >>

GenAgentNext ==
    \/ GenAgentStart \/ GenAgentItems \/ GenAgentEmpty \/ GenAgentRaises
    \/ GenAgentReturn \/ GenAgentDone

GenAgentSpec == Init /\ [][GenAgentNext]_vars

\* C15: when the agent returns, it has attempted every topic assigned to it.
C15_EveryTopicAttempted ==
    gen.phase = "returned" => gen.attempted = Len(gen.topics)

(***************************************************************************)
(* TavilyService.search and Crawl4AIService.scrape_url: the retry loops.   *)
(***************************************************************************)
Services == {"tavily", "crawl4ai", "fallback"}

\* The texts of the exceptions an attempt can raise.
ErrorTexts == {"timeout", "http 500"}

\* What the three functions can return.
SearchResults(n) == [kind |-> "list", len |-> n]
ScrapeRecord(ok, err) == [kind |-> "record", success |-> ok, error |-> err]
NoneValue == [kind |-> "None"]

CallStart ==
    /\ call = Idle
    /\ pc = "start"
    /\ \E service \in Services, max_retries \in 0..MaxRetries :
          call' = [ phase |-> "loop",
                    service |-> service,
                    max_retries |-> max_retries,
                    attempt |-> 0,
                    requests |-> 0,
                    successes |-> 0,
                    last_error |-> "none",
                    slept |-> 0,
                    result |-> NoneValue ]
    /\ UNCHANGED << driver, orch, gen, gemini >>

\* The request of this attempt succeeds: the function returns its value.
CallAttemptSucceeds ==
    /\ call.phase = "loop"
    /\ call.attempt < call.max_retries
    /\ \E n \in 0..1 :
          call' = [call EXCEPT
                     !.requests = @ + 1,
                     !.successes = @ + 1,
                     !.result = IF call.service = "tavily"
                                THEN SearchResults(n)
                                ELSE ScrapeRecord(TRUE, "none"),
                     !.phase = "returned"]
    /\ UNCHANGED << driver, orch, gen, gemini >>

\* A variant of CallAttemptFails without the test for the last attempt.
CallAttemptFailsNoLastTest ==
    /\ call.phase = "loop"
    /\ call.attempt < call.max_retries
    /\ \E e \in ErrorTexts :
          call' = [call EXCEPT
                     !.requests = @ + 1,
                     !.last_error = e,
                     !.slept = @ + 2 ^ call.attempt,
                     !.attempt = @ + 1]
    /\ UNCHANGED << driver, orch, gen, gemini >>

\* The request of this attempt raises: at the last attempt the function
\* returns its failure value, otherwise it sleeps 2 ** attempt and goes on.
CallAttemptFails ==
    /\ call.phase = "loop"
    /\ call.attempt < call.max_retries
    /\ \E e \in ErrorTexts :
          IF call.attempt = call.max_retries - 1
          THEN call' = [call EXCEPT
                          !.requests = @ + 1,
                          !.last_error = e,
                          !.result = IF call.service = "tavily"
                                     THEN SearchResults(0)
                                     ELSE ScrapeRecord(FALSE, e),
                          !.phase = "returned"]
          ELSE call' = [call EXCEPT
                          !.requests = @ + 1,
                          !.last_error = e,
                          !.slept = @ + 2 ^ call.attempt,
                          !.attempt = @ + 1]
    /\ UNCHANGED << driver, orch, gen, gemini >>

\* The statement after the loop: return [] in search, return None in
\* scrape_url and _fallback_scrape.
CallLoopEnd ==
    /\ call.phase = "loop"
    /\ call.attempt >= call.max_retries
    /\ call' = [call EXCEPT
                   !.result = IF call.service = "tavily"
                              THEN SearchResults(0)
                              ELSE NoneValue,
                   !.phase = "returned"]
    /\ UNCHANGED << driver, orch, gen, gemini >>

CallDone ==
    /\ call.phase = "returned"
    /\ call' = Idle
    /\ UNCHANGED << driver, orch, gen, gemini >>

CallNext ==
    \/ CallStart \/ CallAttemptSucceeds \/ CallAttemptFails
    \/ CallLoopEnd \/ CallDone

CallSpec == Init /\ [][CallNext]_vars

\* C17: search and scrape_url send at most max_retries requests and none
\* after the first success; when every attempt failed they return the
\* failure value (an empty list; a record with success false and the error
\* text of the last attempt); with max_retries >= 1 scrape_url does not
\* return None.
C17_BoundedRetriesFailureValue ==
    call # Idle =>
        /\ call.requests <= call.max_retries
        /\ call.successes <= 1
        /\ call.successes = 1 => call.phase = "returned"
        /\ (call.phase = "returned" /\ call.successes = 0) =>
              /\ call.requests = call.max_retries
              /\ call.service = "tavily" => call.result = SearchResults(0)
              /\ (call.service # "tavily" /\ call.max_retries >= 1) =>
                    /\ call.result = ScrapeRecord(FALSE, call.last_error)
                    /\ call.last_error \in ErrorTexts
        /\ (call.phase = "returned" /\ call.service # "tavily"
               /\ call.max_retries >= 1) => call.result # NoneValue

\* Every attempt of a scrape_url call with max_retries > 1 has failed and the
\* call has returned.
C17_Witness ==
    /\ call # Idle
    /\ call.phase = "returned"
    /\ call.service = "crawl4ai"
    /\ call.max_retries > 1
    /\ call.requests = call.max_retries
    /\ call.successes = 0

(***************************************************************************)
(* GeminiService.generate_text: retries and rotation of the API keys.      *)
(***************************************************************************)
\* The service object lives for the whole process, so a call starts with the
\* current_key_index the calls before it left behind.
GeminiStart ==
    /\ gemini = Idle
    /\ pc = "start"
    /\ \E num_keys \in 1..MaxKeys, max_retries \in 0..MaxRetries :
          \E k \in 0..(num_keys - 1) :
             gemini' = [ phase |-> "loop",
                         num_keys |-> num_keys,
                         max_retries |-> max_retries,
                         start_index |-> k,
                         current_key_index |-> k,
                         attempt |-> 0,
                         requests |-> 0,
                         successes |-> 0,
                         tried |-> {},
                         all_quota |-> TRUE ]
    /\ UNCHANGED << driver, orch, gen, call >>

Attempts == gemini.max_retries * gemini.num_keys

\* _rotate_api_key
RotatedIndex == (gemini.current_key_index + 1) % gemini.num_keys

\* tried collects the keys under which a request was sent: the key of a
\* request is the one last handed to genai.configure, api_keys[current_key_index].
\* generate_content answers: return response.text.
GenerateSucceeds ==
    /\ gemini.phase = "loop"
    /\ gemini.attempt < Attempts
    /\ gemini' = [gemini EXCEPT
                     !.requests = @ + 1,
                     !.successes = @ + 1,
                     !.tried = @ \cup {gemini.current_key_index},
                     !.phase = "returned"]
    /\ UNCHANGED << driver, orch, gen, call >>

\* A variant of GenerateQuotaFails that keeps the key.
GenerateQuotaFailsKeepsKey ==
    /\ gemini.phase = "loop"
    /\ gemini.attempt < Attempts
    /\ gemini' = [gemini EXCEPT
                     !.requests = @ + 1,
                     !.tried = @ \cup {gemini.current_key_index},
                     !.attempt = IF gemini.attempt = Attempts - 1
                                 THEN @ ELSE @ + 1,
                     !.phase = IF gemini.attempt = Attempts - 1
                               THEN "raised" ELSE @]
    /\ UNCHANGED << driver, orch, gen, call >>

\* generate_content raises with "quota exceeded" or "rate limit" in its
\* message: rotate, then raise at the last attempt or sleep and go on.
GenerateQuotaFails ==
    /\ gemini.phase = "loop"
    /\ gemini.attempt < Attempts
    /\ gemini' = [gemini EXCEPT
                     !.requests = @ + 1,
                     !.tried = @ \cup {gemini.current_key_index},
                     !.current_key_index = RotatedIndex,
                     !.attempt = IF gemini.attempt = Attempts - 1
                                 THEN @ ELSE @ + 1,
                     !.phase = IF gemini.attempt = Attempts - 1
                               THEN "raised" ELSE @]
    /\ UNCHANGED << driver, orch, gen, call >>

\* generate_content raises with any other message: no rotation.
GenerateOtherFails ==
    /\ gemini.phase = "loop"
    /\ gemini.attempt < Attempts
    /\ gemini' = [gemini EXCEPT
                     !.requests = @ + 1,
                     !.tried = @ \cup {gemini.current_key_index},
                     !.all_quota = FALSE,
                     !.attempt = IF gemini.attempt = Attempts - 1
                                 THEN @ ELSE @ + 1,
                     !.phase = IF gemini.attempt = Attempts - 1
                               THEN "raised" ELSE @]
    /\ UNCHANGED << driver, orch, gen, call >>

\* The statement after the loop: return "".
GenerateLoopEnd ==
    /\ gemini.phase = "loop"
    /\ gemini.attempt >= Attempts
    /\ gemini' = [gemini EXCEPT !.phase = "returned"]
    /\ UNCHANGED << driver, orch, gen, call >>

GeminiDone ==
    /\ gemini.phase \in {"returned", "raised"}
    /\ gemini' = Idle
    /\ UNCHANGED << driver, orch, gen, call >>

GeminiNext ==
    \/ GeminiStart \/ GenerateSucceeds \/ GenerateQuotaFails
    \/ GenerateOtherFails \/ GenerateLoopEnd \/ GeminiDone

GeminiSpec == Init /\ [][GeminiNext]_vars

\* C18: generate_text sends at most max_retries * len(api_keys) requests and
\* returns at the first success; while every failure is a quota or rate-limit
\* failure each of them has moved current_key_index to the next key, so a
\* call that raises after such failures only has made a request under every
\* key; current_key_index stays within 0..len(api_keys)-1.
C18_RotationCoversKeys ==
    gemini # Idle =>
        /\ gemini.requests <= Attempts
        /\ gemini.successes <= 1
        /\ gemini.successes = 1 => gemini.phase = "returned"
        /\ gemini.current_key_index \in 0..(gemini.num_keys - 1)
        /\ (gemini.all_quota /\ gemini.successes = 0) =>
              gemini.current_key_index =
                  (gemini.start_index + gemini.requests) % gemini.num_keys
        /\ gemini.phase = "raised" => gemini.requests = Attempts
        /\ (gemini.phase = "raised" /\ gemini.all_quota) =>
              gemini.tried = 0..(gemini.num_keys - 1)

\* A call with several keys, started at a key other than the first, has
\* raised after quota failures only.
C18_Witness ==
    /\ gemini # Idle
    /\ gemini.phase = "raised"
    /\ gemini.all_quota
    /\ gemini.num_keys > 1
    /\ gemini.start_index > 0
    /\ gemini.requests > gemini.num_keys

(***************************************************************************)
(* Stage 4 of the driver when the generation service has no key left.      *)
(***************************************************************************)
\* generate_text raises for topic l_topic after its last attempt: the agent
\* catches the exception, leaves its loop and returns no record (agent lines
\* 107-123), so the driver takes the branch of an empty answer.  gen keeps
\* the topic at which the keys were exhausted.
GenerateTopicExhausted ==
    /\ pc = "s4_topic"
    /\ gen = Idle
    /\ gen' = [phase |-> "exhausted", topic_index |-> l_topic]
    /\ l_data' = ExtendData(l_data, <<>>)
    /\ assets' = [assets EXCEPT !.synthetic_data = ExtendData(l_data, <<>>)]
    /\ l_index' = l_index + 1
    /\ pc' = "s4_saved"
    /\ UNCHANGED << status, sample_count, checkpoint, l_chunk, l_topic,
                    restarts, orch, call, gemini >>

QuotaSpec == Init /\ [][Next \/ GenerateTopicExhausted]_vars

\* C19: once the keys are exhausted in stage 4, the invocation dispatches no
\* further topic.
C19_ExhaustionStopsInvocation ==
    [][(gen.phase = "exhausted" /\ restarts' = restarts)
          => ~(pc = "s4_saved" /\ pc' = "s4_topic")]_vars

(***************************************************************************)
(* The early exit of topic extraction, in the orchestrator and the driver. *)
(***************************************************************************)
\* The driver does not call the orchestrator: a call of the orchestrator
\* runs from its start to its return before the driver's run begins.
OrchCall == pc = "start" /\ restarts = 0 /\ OrchNext

DriverRun == orch = Idle /\ Next

EarlyExitSpec == Init /\ [][OrchCall \/ DriverRun]_vars

\* C20: the orchestrator submits a batch only while the admitted topics are
\* fewer than required_topics; the futures of a submitted batch complete one
\* by one, each returned topic list is admitted even beyond required_topics,
\* and the batch ends only when none is pending; the driver's stage 3 comes
\* to a chunk only while the unique topics are fewer than required_topics.
C20_EarlyExit ==
    [][ /\ (orch.phase = "extract" /\ orch'.phase = "collect")
              => Len(orch.all_topics) < orch.required_topics
        /\ (orch.phase = "collect" /\ orch'.phase = "collect")
              => /\ Cardinality(orch'.pending) = Cardinality(orch.pending) - 1
                 /\ orch'.returned \subseteq KeysOf(orch'.all_topics)
        /\ (orch.phase = "collect" /\ orch'.phase # "collect")
              => orch.pending = {}
        /\ pc' = "s3_chunk" => ~EnoughTopics'
      ]_vars

\* A call has returned with chunks left, and the batch that reached
\* required_topics has admitted topics beyond it.
C20_Witness ==
    /\ orch.phase = "topics_returned"
    /\ orch.num_chunks > 0
    /\ orch.chunk_index < orch.num_chunks
    /\ Len(orch.all_topics) > orch.required_topics

(***************************************************************************)
(* run_parallel_topic_extraction with fixed chunks and fixed agent outputs: *)
(* only the order in which as_completed yields the futures varies.         *)
(***************************************************************************)
\* What an agent returns for its chunk.
FixedOutputs == { << <<"a">> >>, << <<"A", " ">> >>, << <<"b">> >> }

\* The call starts as in ExtractionStart; outputs gives each chunk's answer.
OrderStart ==
    /\ orch = Idle
    /\ pc = "start"
    /\ \E w \in 1..MaxWorkers, s \in 1..MaxSample, n \in 1..(MaxChunks + 1) :
          \E outputs \in [0..(n - 1) -> FixedOutputs] :
             orch' = [ phase |-> "extract",
                       max_workers |-> w,
                       required_topics |-> RequiredTopics(s, RowsPerSubtopic),
                       num_chunks |-> n,
                       chunk_index |-> 0,
                       all_topics |-> <<>>,
                       processed_chunk_ids |-> {},
                       pending |-> {},
                       batch |-> {},
                       returned |-> {},
                       failed |-> 0,
                       outputs |-> outputs ]
    /\ UNCHANGED << driver, gen, call, gemini >>

\* The chunk of agent a of the batch in flight.
ChunkOfAgent(a) == orch.chunk_index - Cardinality(orch.batch) + (a - 1)

\* as_completed yields the future of any pending agent; its topics are
\* admitted as in CollectTopics.
CollectInAnyOrder ==
    /\ orch.phase = "collect"
    /\ \E a \in orch.pending :
          LET raw == orch.outputs[ChunkOfAgent(a)]
          IN  orch' = [orch EXCEPT
                         !.pending = @ \ {a},
                         !.all_topics =
                             AdmitTopics(@, orch.processed_chunk_ids,
                                         UniqueByKey(raw, {})),
                         !.processed_chunk_ids = @ \cup KeysOf(raw),
                         !.returned = @ \cup KeysOf(raw)]
    /\ UNCHANGED << driver, gen, call, gemini >>

OrderSpec ==
    Init /\ [][OrderStart \/ DispatchBatch \/ CollectInAnyOrder \/ BatchEnd
                  \/ ExtractionReturn \/ OrchDone]_vars

\* The result of the call o when the futures of every batch complete in the
\* order of their agents.
RECURSIVE InOrderBatch(_, _, _, _)
InOrderBatch(o, idx, last, all) ==
    IF idx > last THEN all
    ELSE InOrderBatch(o, idx + 1, last,
                      AdmitTopics(all, KeysOf(all),
                                  UniqueByKey(o.outputs[idx], {})))

RECURSIVE InOrderTopics(_, _, _)
InOrderTopics(o, idx, all) ==
    IF Len(all) >= o.required_topics \/ idx >= o.num_chunks THEN all
    ELSE LET b == IF o.num_chunks - idx < o.max_workers
                  THEN o.num_chunks - idx ELSE o.max_workers
         IN  InOrderTopics(o, idx + b, InOrderBatch(o, idx, idx + b - 1, all))

\* C21: for fixed chunks and fixed agent outputs the set of topics a call
\* returns is the one it returns when the agents complete in order, whatever
\* the order of completion was.
C21_ResultIndependentOfOrder ==
    orch.phase = "topics_returned"
        => Range(orch.all_topics) = Range(InOrderTopics(orch, 0, <<>>))

(***************************************************************************)
(* The admission of one batch, statement by statement: the agents run in   *)
(* the executor's threads, the calling thread walks as_completed and, for  *)
(* each topic, tests the key and then inserts it.                          *)
(***************************************************************************)
\* What an agent returns: execute has removed the repeated keys.
AgentOutputs == { UniqueByKey(r, {}) : r \in SeqsUpTo(TopicTexts, 2) }

Future(state, rest, tested) ==
    [state |-> state, rest |-> rest, tested |-> tested]

\* The futures whose topics the calling thread is walking through.
Admitting == { a \in DOMAIN orch.futures : orch.futures[a].state = "admitting" }

\* The batch is submitted: every agent is running.
AdmissionStart ==
    /\ orch = Idle
    /\ pc = "start"
    /\ \E w \in 1..MaxWorkers :
          \E outputs \in [1..w -> AgentOutputs] :
             orch' = [ phase |-> "admission",
                       futures |-> [a \in 1..w |->
                                       Future("running", outputs[a], "none")],
                       all_topics |-> <<>>,
                       processed_chunk_ids |-> {} ]
    /\ UNCHANGED << driver, gen, call, gemini >>

\* An agent returns in its thread: its future is done.
AgentCompletes ==
    /\ orch.phase = "admission"
    /\ \E a \in DOMAIN orch.futures :
          /\ orch.futures[a].state = "running"
          /\ orch' = [orch EXCEPT !.futures[a].state = "done"]
    /\ UNCHANGED << driver, gen, call, gemini >>

\* A variant in which a future is taken while another is being walked.
TakeFutureConcurrently ==
    /\ orch.phase = "admission"
    /\ \E a \in DOMAIN orch.futures :
          /\ orch.futures[a].state = "done"
          /\ orch' = [orch EXCEPT !.futures[a].state = "admitting"]
    /\ UNCHANGED << driver, gen, call, gemini >>

\* as_completed yields a done future and future.result() returns: the one
\* calling thread takes the next future only after the body of the for
\* statement has ended for the one before.
TakeFuture ==
    /\ orch.phase = "admission"
    /\ Admitting = {}
    /\ \E a \in DOMAIN orch.futures :
          /\ orch.futures[a].state = "done"
          /\ orch' = [orch EXCEPT !.futures[a].state = "admitting"]
    /\ UNCHANGED << driver, gen, call, gemini >>

\* if topic_lower not in processed_chunk_ids
TestKey ==
    /\ orch.phase = "admission"
    /\ \E a \in Admitting :
          /\ orch.futures[a].rest # <<>>
          /\ orch.futures[a].tested = "none"
          /\ orch' = [orch EXCEPT
                         !.futures[a].tested =
                             IF TopicKey(Head(orch.futures[a].rest))
                                   \in orch.processed_chunk_ids
                             THEN "seen" ELSE "new"]
    /\ UNCHANGED << driver, gen, call, gemini >>

\* processed_chunk_ids.add(topic_lower); all_topics.append(topic)
InsertKey ==
    /\ orch.phase = "admission"
    /\ \E a \in Admitting :
          /\ orch.futures[a].tested = "new"
          /\ orch' = [orch EXCEPT
                         !.processed_chunk_ids =
                             @ \cup {TopicKey(Head(orch.futures[a].rest))},
                         !.all_topics = Append(@, Head(orch.futures[a].rest)),
                         !.futures[a].rest = Tail(@),
                         !.futures[a].tested = "none"]
    /\ UNCHANGED << driver, gen, call, gemini >>

\* The test fails: the loop goes to the next topic.
SkipKey ==
    /\ orch.phase = "admission"
    /\ \E a \in Admitting :
          /\ orch.futures[a].tested = "seen"
          /\ orch' = [orch EXCEPT
                         !.futures[a].rest = Tail(@),
                         !.futures[a].tested = "none"]
    /\ UNCHANGED << driver, gen, call, gemini >>

\* The topics of the future are through.
FutureConsumed ==
    /\ orch.phase = "admission"
    /\ \E a \in Admitting :
          /\ orch.futures[a].rest = <<>>
          /\ orch' = [orch EXCEPT !.futures[a].state = "consumed"]
    /\ UNCHANGED << driver, gen, call, gemini >>

\* as_completed is exhausted.
AdmissionEnd ==
    /\ orch.phase = "admission"
    /\ \A a \in DOMAIN orch.futures : orch.futures[a].state = "consumed"
    /\ orch' = [orch EXCEPT !.phase = "topics_returned"]
    /\ UNCHANGED << driver, gen, call, gemini >>

AdmissionSpec ==
    Init /\ [][AdmissionStart \/ AgentCompletes \/ TakeFuture \/ TestKey
                  \/ InsertKey \/ SkipKey \/ FutureConsumed \/ AdmissionEnd
                  \/ OrchDone]_vars

\* C22: whatever the interleaving of the agents, no two admitted topics have
\* the same key, and between the test of a key and its insertion no other
\* future is in its test-and-insert: at most one future is being walked.
C22_AdmissionIsAtomic ==
    orch.phase \in {"admission", "topics_returned"} =>
        /\ Cardinality(KeysOf(orch.all_topics)) = Len(orch.all_topics)
        /\ KeysOf(orch.all_topics) = orch.processed_chunk_ids
        /\ orch.phase = "admission" => Cardinality(Admitting) <= 1

\* Two agents returned topics of the same key while the other was still
\* running or waiting, and the call has returned one topic for that key.
C22_Witness ==
    /\ orch.phase = "topics_returned"
    /\ \E a, b \in DOMAIN orch.futures : a # b
    /\ Len(orch.all_topics) = 1
    /\ orch.all_topics[1] = <<"A", " ">>

(***************************************************************************)
(* FiltrationAgent: URLs are character sequences, so that the scheme, the  *)
(* host, the path, the query, letter case and slashes are there to be      *)
(* normalized.                                                             *)
(***************************************************************************)
\* s.find(c) + 1: the place of the first c in s, 0 when there is none.
RECURSIVE Find(_, _)
Find(s, c) ==
    IF s = <<>> THEN 0
    ELSE IF Head(s) = c THEN 1
    ELSE IF Find(Tail(s), c) = 0 THEN 0 ELSE Find(Tail(s), c) + 1

\* s.endswith(suffix)
EndsWith(s, suffix) ==
    /\ Len(suffix) <= Len(s)
    /\ SubSeq(s, Len(s) - Len(suffix) + 1, Len(s)) = suffix

\* sub in s
Contains(s, sub) ==
    \E i \in 1..(Len(s) - Len(sub) + 1) : SubSeq(s, i, i + Len(sub) - 1) = sub

\* The text up to the first of the delimiters.
RECURSIVE UpTo(_, _)
UpTo(s, delimiters) ==
    IF s = <<>> \/ Head(s) \in delimiters THEN <<>>
    ELSE <<Head(s)>> \o UpTo(Tail(s), delimiters)

\* urlparse: the scheme is what precedes the first ":" when that begins with
\* a letter and holds scheme characters only; the host follows "//" up to
\* the next "/" or "?"; the path goes up to the "?".
Urlparse(u) ==
    LET colon == Find(u, ":")
        has_scheme ==
            /\ colon > 1
            /\ u[1] \notin {".", ":", "/", "?", " "}
            /\ \A k \in 1..(colon - 1) : u[k] \notin {":", "/", "?", " "}
        rest == IF has_scheme THEN SubSeq(u, colon + 1, Len(u)) ELSE u
        has_netloc == SubSeq(rest, 1, 2) = <<"/", "/">>
        netloc == IF has_netloc
                  THEN UpTo(SubSeq(rest, 3, Len(rest)), {"/", "?"})
                  ELSE <<>>
    IN  [ scheme |-> IF has_scheme THEN Lower(SubSeq(u, 1, colon - 1))
                     ELSE <<>>,
          netloc |-> netloc,
          path |-> IF has_netloc
                   THEN UpTo(SubSeq(rest, 3 + Len(netloc), Len(rest)), {"?"})
                   ELSE UpTo(rest, {"?"}) ]

\* FiltrationAgent._normalize_url
NormalizeUrl(url) ==
    LET parsed == Urlparse(Strip(Lower(url)))
        normalized == parsed.scheme \o <<":", "/", "/">> \o parsed.netloc
                          \o parsed.path
    IN  IF EndsWith(normalized, <<"/">>)
        THEN SubSeq(normalized, 1, Len(normalized) - 1)
        ELSE normalized

ExcludedExtensions ==
    {
      <<".", "p", "d", "f">>, <<".", "d", "o", "c">>,
      <<".", "d", "o", "c", "x">>, <<".", "p", "p", "t">>,
      <<".", "p", "p", "t", "x">>, <<".", "x", "l", "s">>,
      <<".", "x", "l", "s", "x">>, <<".", "z", "i", "p">>,
      <<".", "r", "a", "r">>, <<".", "t", "a", "r">>, <<".", "g", "z">>,
      <<".", "m", "p", "4">>, <<".", "a", "v", "i">>, <<".", "m", "p", "3">>,
      <<".", "j", "p", "g">>, <<".", "j", "p", "e", "g">>,
      <<".", "p", "n", "g">>, <<".", "g", "i", "f">>, <<".", "b", "m", "p">> }

ExcludedDomains ==
    {
      <<"t", "w", "i", "t", "t", "e", "r", ".", "c", "o", "m">>,
      <<"f", "a", "c", "e", "b", "o", "o", "k", ".", "c", "o", "m">>,
      <<"i", "n", "s", "t", "a", "g", "r", "a", "m", ".", "c", "o", "m">>,
      <<"l", "i", "n", "k", "e", "d", "i", "n", ".", "c", "o", "m">>,
      <<"y", "o", "u", "t", "u", "b", "e", ".", "c", "o", "m">>,
      <<"t", "i", "k", "t", "o", "k", ".", "c", "o", "m">>,
      <<"r", "e", "d", "d", "i", "t", ".", "c", "o", "m">> }

\* FiltrationAgent._is_valid_url
IsValidUrl(url) ==
    /\ Urlparse(url).scheme # <<>>
    /\ Urlparse(url).netloc # <<>>
    /\ ~ \E ext \in ExcludedExtensions : EndsWith(Lower(url), ext)
    /\ ~ \E domain \in ExcludedDomains : 
           Contains(Lower(Urlparse(url).netloc), domain)
    /\ Len(url) >= 10

\* FiltrationAgent._calculate_content_hash: the digest of the lowered and
\* stripped title, a space, and the lowered and stripped snippet.
SearchContentHash(title, snippet) ==
    << "md5", Strip(Lower(title)) \o <<" ">> \o Strip(Lower(snippet)) >>

\* The URLs of the search results.
UrlTexts ==
    {
      <<"h", "t", "t", "p", ":", "/", "/", "a", ".", "b", "/", "p">>,
      <<"h", "t", "t", "p", ":", "/", "/", "a", ".", "b", "/", "p", "/">>,
      <<"h", "t", "t", "p", ":", "/", "/", "A", ".", "b", "/", "p">>,
      <<"h", "t", "t", "p", ":", "/", "/", "a", ".", "b", "/", "p", "/", "/">>,
      <<"h", "t", "t", "p", ":", "/", "/", "a", ".", "b", "/", "p", "?", "q">>,
      <<"h", "t", "t", "p", ":", "/", "/", "a", ".", "b", "/", "p", " ">>,
      <<"h", "t", "t", "p", ":", "/", "/", "a", ".", "b">>,
      <<"h", "t", "t", "p", ":", "/", "/", "a", ".", "b", "/">>,
      <<"h", "t", "t", "p", ":", "/", "/", "b", ".", "a", "/", "p">>,
      <<"a", ".", "b", "/", "p">>,
      <<"h", "t", "t", "p", ":", "/", "/", "a", ".", "b", "/", "x", ".", "p", "d", "f">>,
      <<"h", "t", "t", "p", ":", "/", "/", "r", "e", "d", "d", "i", "t", ".", "c", "o", "m", "/", "p">>,
      <<"f", "t", "p", ":", "/", "/", "a", ".", "b">> }

(***************************************************************************)
(* FiltrationAgent.execute: the loop over the search results.              *)
(***************************************************************************)
\* The search results of a call: URLs that are equal, equal by key only,
\* different and invalid, with titles that are equal by hash or different.
SearchResultSet ==
    [ url : { <<"h","t","t","p",":","/","/","a",".","b","/","p">>,
              <<"h","t","t","p",":","/","/","A",".","b","/","p","/">>,
              <<"h","t","t","p",":","/","/","b",".","a","/","p">> },
      title : { <<"a">> },
      snippet : { <<"a">> } ]
    \cup
    [ url : { <<"h","t","t","p",":","/","/","b",".","a","/","p">>,
              <<"a",".","b","/","p">> },
      title : { <<"A", " ">>, <<"b">> },
      snippet : { <<"a">> } ]

FilterInputs == SeqsUpTo(SearchResultSet, MaxResults)

\* The call starts with its own empty seen_urls and seen_content.
NewFilterCall(input, round, run_urls) ==
    [ phase |-> "filter",
      input |-> input,
      i |-> 0,
      seen_urls |-> {},
      seen_content |-> {},
      filtered_results |-> <<>>,
      kept |-> <<>>,
      verdicts |-> <<>>,
      stats |-> [ invalid_urls |-> 0, duplicate_urls |-> 0,
                  duplicate_content |-> 0, valid_results |-> 0 ],
      round |-> round,
      run_urls |-> run_urls ]

FilterStart ==
    /\ call = Idle
    /\ pc = "start"
    /\ \E input \in FilterInputs : call' = NewFilterCall(input, 1, {})
    /\ UNCHANGED << driver, orch, gen, gemini >>

\* A variant that does not add the content hash of an admitted result.
FilterResultForgetsContent ==
    /\ call.phase = "filter"
    /\ call.i < Len(call.input)
    /\ LET result == call.input[call.i + 1]
           normalized_url == NormalizeUrl(result.url)
           content_hash == SearchContentHash(result.title, result.snippet)
       IN  IF ~IsValidUrl(result.url)
           THEN call' = [call EXCEPT !.i = @ + 1,
                           !.stats.invalid_urls = @ + 1,
                           !.verdicts = Append(@, "invalid")]
           ELSE IF normalized_url \in call.seen_urls
           THEN call' = [call EXCEPT !.i = @ + 1,
                           !.stats.duplicate_urls = @ + 1,
                           !.verdicts = Append(@, "duplicate_url")]
           ELSE IF content_hash \in call.seen_content
           THEN call' = [call EXCEPT !.i = @ + 1,
                           !.stats.duplicate_content = @ + 1,
                           !.verdicts = Append(@, "duplicate_content")]
           ELSE call' = [call EXCEPT !.i = @ + 1,
                           !.seen_urls = @ \cup {normalized_url},
                           !.filtered_results = Append(@, result),
                           !.kept = Append(@, call.i + 1),
                           !.stats.valid_results = @ + 1,
                           !.verdicts = Append(@, "valid")]
    /\ UNCHANGED << driver, orch, gen, gemini >>

\* One pass of the loop body for the next result.  kept and verdicts record
\* the places of the admitted results and the branch each result took.
FilterResult ==
    /\ call.phase = "filter"
    /\ call.i < Len(call.input)
    /\ LET result == call.input[call.i + 1]
           normalized_url == NormalizeUrl(result.url)
           content_hash == SearchContentHash(result.title, result.snippet)
       IN  IF ~IsValidUrl(result.url)
           THEN call' = [call EXCEPT !.i = @ + 1,
                           !.stats.invalid_urls = @ + 1,
                           !.verdicts = Append(@, "invalid")]
           ELSE IF normalized_url \in call.seen_urls
           THEN call' = [call EXCEPT !.i = @ + 1,
                           !.stats.duplicate_urls = @ + 1,
                           !.verdicts = Append(@, "duplicate_url")]
           ELSE IF content_hash \in call.seen_content
           THEN call' = [call EXCEPT !.i = @ + 1,
                           !.stats.duplicate_content = @ + 1,
                           !.verdicts = Append(@, "duplicate_content")]
           ELSE call' = [call EXCEPT !.i = @ + 1,
                           !.seen_urls = @ \cup {normalized_url},
                           !.seen_content = @ \cup {content_hash},
                           !.filtered_results = Append(@, result),
                           !.kept = Append(@, call.i + 1),
                           !.stats.valid_results = @ + 1,
                           !.verdicts = Append(@, "valid")]
    /\ UNCHANGED << driver, orch, gen, gemini >>

\* return filtered_results
FilterReturn ==
    /\ call.phase = "filter"
    /\ call.i = Len(call.input)
    /\ call' = [call EXCEPT !.phase = "filtered"]
    /\ UNCHANGED << driver, orch, gen, gemini >>

\* After a backward transition the driver comes to stage 2 again in the same
\* run: a new FiltrationAgent filters the new search results (one result
\* here).  run_urls collects the URL keys admitted by the calls before.
FilterAgain ==
    /\ call.phase = "filtered"
    /\ call.round = 1
    /\ \E result \in SearchResultSet :
          call' = NewFilterCall(<<result>>, 2,
                     call.run_urls \cup { NormalizeUrl(r.url) :
                                            r \in Range(call.filtered_results) })
    /\ UNCHANGED << driver, orch, gen, gemini >>

FilterDone ==
    /\ call.phase = "filtered"
    /\ call' = Idle
    /\ UNCHANGED << driver, orch, gen, gemini >>

FilterSpec ==
    Init /\ [][FilterStart \/ FilterResult \/ FilterReturn \/ FilterAgain
                  \/ FilterDone]_vars

\* The results admitted before place k.
AdmittedBefore(k) ==
    { call.input[j] : j \in { j \in 1..(k - 1) : call.verdicts[j] = "valid" } }

\* The reason under which the result at place k is to be counted.
Verdict(k) ==
    IF ~IsValidUrl(call.input[k].url) THEN "invalid"
    ELSE IF \E r \in AdmittedBefore(k) :
               NormalizeUrl(r.url) = NormalizeUrl(call.input[k].url)
         THEN "duplicate_url"
    ELSE IF \E r \in AdmittedBefore(k) :
               SearchContentHash(r.title, r.snippet) =
                   SearchContentHash(call.input[k].title, call.input[k].snippet)
         THEN "duplicate_content"
    ELSE "valid"

CountOf(reason) ==
    Cardinality({ k \in 1..Len(call.verdicts) : call.verdicts[k] = reason })

\* C23: the results processed so far are each counted under the one reason
\* that applies first (invalid, duplicate URL, duplicate content) or admitted;
\* the admitted results are the sub-sequence of the input at the admitted
\* places, in input order; they have pairwise distinct URL keys and pairwise
\* distinct content hashes; the four counts add up to the results processed,
\* at the return to the length of the input.
C23_FilterIsOrderedDedup ==
    call.phase \in {"filter", "filtered"} =>
        /\ Len(call.verdicts) = call.i
        /\ call.phase = "filtered" => call.i = Len(call.input)
        /\ \A k \in 1..call.i : call.verdicts[k] = Verdict(k)
        /\ Len(call.filtered_results) = Len(call.kept)
        /\ \A m \in 1..Len(call.kept) :
              /\ call.filtered_results[m] = call.input[call.kept[m]]
              /\ m > 1 => call.kept[m - 1] < call.kept[m]
        /\ Range(call.kept) = { k \in 1..call.i : call.verdicts[k] = "valid" }
        /\ \A m, n \in 1..Len(call.filtered_results) :
              m # n =>
                /\ NormalizeUrl(call.filtered_results[m].url)
                      # NormalizeUrl(call.filtered_results[n].url)
                /\ SearchContentHash(call.filtered_results[m].title,
                                     call.filtered_results[m].snippet)
                      # SearchContentHash(call.filtered_results[n].title,
                                          call.filtered_results[n].snippet)
        /\ call.stats.invalid_urls = CountOf("invalid")
        /\ call.stats.duplicate_urls = CountOf("duplicate_url")
        /\ call.stats.duplicate_content = CountOf("duplicate_content")
        /\ call.stats.valid_results = CountOf("valid")
        /\ call.stats.invalid_urls + call.stats.duplicate_urls
              + call.stats.duplicate_content + call.stats.valid_results
              = call.i

\* A call has returned that admitted a result and rejected one for a
\* duplicate URL and one for duplicate content.
C23_Witness ==
    /\ call.phase = "filtered"
    /\ call.stats.duplicate_urls > 0
    /\ call.stats.duplicate_content > 0
    /\ call.stats.valid_results > 0

\* C24: a URL key admitted by an earlier filter call of the run is not
\* admitted by a later one.
C24_AdmittedOncePerRun ==
    call.phase \in {"filter", "filtered"} =>
        \A r \in Range(call.filtered_results) :
            NormalizeUrl(r.url) \notin call.run_urls

(***************************************************************************)
(* DataCollectionAgent.execute.                                            *)
(***************************************************************************)
\* A data point: its content and the topic it was generated for.
Point(text, topic) == [content |-> [text |-> text], source_topics |-> <<topic>>]

DataLists ==
    SeqsUpTo({ Point(text, topic) : text \in {"x", "y"}, topic \in {"a", "b"} },
             RowsPerSubtopic)

\* Three generators with five points each: thirteen contents, of which the
\* third generator repeats two.
ExampleLists ==
    << [k \in 1..5 |-> Point(k, "a")],
       [k \in 1..5 |-> Point(5 + k, "a")],
       [k \in 1..5 |-> Point(IF k <= 3 THEN 10 + k ELSE k - 3, "b")] >>

\* all_data_points.extend(data_list) for every list.
RECURSIVE Extend(_)
Extend(lists) ==
    IF lists = <<>> THEN <<>> ELSE Head(lists) \o Extend(Tail(lists))

\* A variant that compares whole points instead of content hashes.
RECURSIVE UniquePointsByPoint(_, _)
UniquePointsByPoint(points, seen_hashes) ==
    IF points = <<>> THEN <<>>
    ELSE IF Head(points) \in seen_hashes
         THEN UniquePointsByPoint(Tail(points), seen_hashes)
         ELSE <<Head(points)>> \o
              UniquePointsByPoint(Tail(points), seen_hashes \cup {Head(points)})

\* The points whose content hash is not in seen_hashes, first come first kept.
RECURSIVE UniquePoints(_, _)
UniquePoints(points, seen_hashes) ==
    IF points = <<>> THEN <<>>
    ELSE IF ContentKey(Head(points).content) \in seen_hashes
         THEN UniquePoints(Tail(points), seen_hashes)
         ELSE <<Head(points)>> \o
              UniquePoints(Tail(points),
                           seen_hashes \cup {ContentKey(Head(points).content)})

\* format(x, ".1f") for x = 100 * actual / target: the tenths, rounded to the
\* nearest, a tie to the even one.
CompletionRate(actual, target) ==
    LET twice == (2000 * actual) \div target
        exact == (2000 * actual) % target = 0
        tenths == IF twice % 2 = 0 THEN twice \div 2
                  ELSE IF exact /\ (twice \div 2) % 2 = 0 THEN twice \div 2
                  ELSE twice \div 2 + 1
    IN  [whole |-> tenths \div 10, tenth |-> tenths % 10, sign |-> "%"]

\* execute, from the lists of the generators to final_dataset.
FinalDataset(synthetic_data_lists, target_count) ==
    LET all_data_points == Extend(synthetic_data_lists)
        unique_data_points == UniquePoints(all_data_points, {})
        final_data_points ==
            SubSeq(unique_data_points, 1,
                   IF Len(unique_data_points) < target_count
                   THEN Len(unique_data_points) ELSE target_count)
    IN  [ metadata |->
            [ requested_count |-> target_count,
              actual_count |-> Len(final_data_points),
              completion_rate |->
                  CompletionRate(Len(final_data_points), target_count),
              total_generated |-> Len(all_data_points),
              after_deduplication |-> Len(unique_data_points) ],
          data |-> [i \in 1..Len(final_data_points) |->
                      [ id |-> i,
                        content |-> final_data_points[i].content,
                        source_topics |-> final_data_points[i].source_topics ]] ]

CollectExecute ==
    /\ gen = Idle
    /\ pc = "start"
    /\ \E n \in 1..2, target \in 1..MaxSample :
          \E lists \in [1..n -> DataLists] :
             gen' = [ phase |-> "collected",
                      example |-> FALSE,
                      synthetic_data_lists |-> lists,
                      final_dataset |-> FinalDataset(lists, target) ]
    /\ UNCHANGED << driver, orch, call, gemini >>

CollectExample ==
    /\ gen = Idle
    /\ pc = "start"
    /\ gen' = [ phase |-> "collected",
                example |-> TRUE,
                synthetic_data_lists |-> ExampleLists,
                final_dataset |-> FinalDataset(ExampleLists, 12) ]
    /\ UNCHANGED << driver, orch, call, gemini >>

CollectDone ==
    /\ gen.phase = "collected"
    /\ gen' = Idle
    /\ UNCHANGED << driver, orch, call, gemini >>

CollectSpec == Init /\ [][CollectExecute \/ CollectExample \/ CollectDone]_vars

\* The places of the candidates that are the first of their content hash.
FirstPlaces(points) ==
    { k \in 1..Len(points) :
        \A j \in 1..(k - 1) :
            ContentKey(points[j].content) # ContentKey(points[k].content) }

\* C25: total_generated is the number of candidates, after_deduplication the
\* number of distinct content hashes, actual_count the smaller of that and
\* requested_count; the data are the first candidates of their content hash
\* in the order of the concatenated lists, cut to actual_count, with the ids
\* 1..actual_count; the example of 15 candidates with 2 duplicates and target
\* 12 gives 13, 12 and "100.0%".
C25_CollectFirstOccurrences ==
    gen.phase = "collected" =>
        LET points == Extend(gen.synthetic_data_lists)
            meta == gen.final_dataset.metadata
            data == gen.final_dataset.data
        IN  /\ meta.total_generated = Len(points)
            /\ meta.after_deduplication =
                  Cardinality({ ContentKey(points[k].content) :
                                  k \in 1..Len(points) })
            /\ meta.after_deduplication = Cardinality(FirstPlaces(points))
            /\ meta.actual_count =
                  IF meta.after_deduplication < meta.requested_count
                  THEN meta.after_deduplication ELSE meta.requested_count
            /\ Len(data) = meta.actual_count
            /\ \A i \in 1..Len(data) :
                  /\ data[i].id = i
                  /\ \E k \in FirstPlaces(points) :
                        /\ data[i].content = points[k].content
                        /\ data[i].source_topics = points[k].source_topics
                        /\ Cardinality({ j \in FirstPlaces(points) : j < k })
                              = i - 1
            /\ gen.example =>
                  /\ meta.total_generated = 15
                  /\ meta.after_deduplication = 13
                  /\ meta.actual_count = 12
                  /\ meta.completion_rate =
                        [whole |-> 100, tenth |-> 0, sign |-> "%"]

\* Two generators returned points of the same content for different topics,
\* and fewer distinct contents than requested were delivered.
C25_Witness ==
    /\ gen.phase = "collected"
    /\ ~gen.example
    /\ Len(gen.synthetic_data_lists) = 2
    /\ gen.synthetic_data_lists[1] # <<>>
    /\ gen.final_dataset.metadata.after_deduplication
          < gen.final_dataset.metadata.total_generated
    /\ gen.final_dataset.metadata.actual_count
          < gen.final_dataset.metadata.requested_count
    /\ \E i \in 1..Len(gen.synthetic_data_lists[2]) :
          /\ gen.synthetic_data_lists[2][i].content
                = gen.synthetic_data_lists[1][1].content
          /\ gen.synthetic_data_lists[2][i] # gen.synthetic_data_lists[1][1]

\* C26: the topic sets of the workers, one after the other, are the input
\* topics: contiguous slices in input order that cover the list with no topic
\* in two of them; their sizes differ by at most one; the result holds one
\* list for each worker that received topics.
C26_EachTopicOnce ==
    orch.phase \in {"gen_collect", "lists_returned"} =>
        /\ Extend(orch.topic_sets) = orch.input_topics
        /\ \A i, j \in 1..Len(orch.topic_sets) :
              Len(orch.topic_sets[i]) - Len(orch.topic_sets[j]) <= 1
        /\ orch.phase = "lists_returned" =>
              Len(orch.synthetic_data_lists) =
                  Cardinality({ i \in 1..Len(orch.topic_sets) :
                                  orch.topic_sets[i] # <<>> })

\* The driver is in stage 2.
InStage2 ==
    pc \in {"s2", "s2_refined", "s2_search", "s2_searched", "s2_filtered",
            "s2_scrape", "s2_scraped", "s2_chunk", "s2_chunked", "s2_gathered"}

\* C27, with the backward transition as the one exception: a step of stage 4
\* leaves the topics, the chunks and the stage 2 assets as they are; a step
\* of stage 3 leaves the records and the chunks as they are, and leaves
\* refined_queries and search_results as they are unless it is one of the
\* two clearing steps of the backward transition; a step of stage 2 leaves
\* the topics and the records as they are.
C27_StagesKeepOtherAssets ==
    [][ /\ InStage4 =>
              /\ assets'.all_extracted_topics = assets.all_extracted_topics
              /\ assets'.all_chunks = assets.all_chunks
              /\ assets'.refined_queries = assets.refined_queries
              /\ assets'.search_results = assets.search_results
              /\ assets'.filtered_results = assets.filtered_results
              /\ assets'.scraped_content = assets.scraped_content
        /\ (InStage3 \/ pc \in {"s3_clear_refined", "s3_clear_search"}) =>
              /\ assets'.synthetic_data = assets.synthetic_data
              /\ assets'.all_chunks = assets.all_chunks
              /\ assets'.filtered_results = assets.filtered_results
              /\ assets'.scraped_content = assets.scraped_content
        /\ InStage3 =>
              /\ assets'.refined_queries = assets.refined_queries
              /\ assets'.search_results = assets.search_results
        /\ pc = "s3_clear_refined" =>
              assets'.search_results = assets.search_results
        /\ pc = "s3_clear_search" =>
              assets'.refined_queries = assets.refined_queries
        /\ InStage2 =>
              /\ assets'.all_extracted_topics = assets.all_extracted_topics
              /\ assets'.synthetic_data = assets.synthetic_data
      ]_vars

\* After a backward transition stage 2 has stored new chunks while the
\* topics of the earlier round are in the store.
C27_Witness ==
    /\ pc = "s2_chunked"
    /\ Topics # <<>>
    /\ assets.all_chunks # NoChunks

\* C27 as stated: no step of stage 3, its backward transition included,
\* changes refined_queries or search_results.
C27_Stage3KeepsSearchAssets ==
    [][(InStage3 \/ pc \in {"s3_clear_refined", "s3_clear_search"}) =>
          /\ assets'.refined_queries = assets.refined_queries
          /\ assets'.search_results = assets.search_results]_vars

(***************************************************************************)
(* Errors the driver does not absorb.  The agents of stages 1, 2 and 3     *)
(* log and re-raise what their execute raised; the driver calls them       *)
(* outside any handler of its own, so the error reaches the handler around *)
(* the whole run, which logs it and saves the state.                       *)
(***************************************************************************)
\* The level the stage at the driver's position sets when it completes.
FailingLevel ==
    CASE pc = "start" -> STATUS_LEVELS("query_parsed")
      [] pc = "s2_search" -> STATUS_LEVELS("web_searched")
      [] pc \in {"s2_scrape", "s2_filtered"} -> STATUS_LEVELS("web_scraped")
      [] pc = "s3_chunk" -> STATUS_LEVELS("topics_extracted")
      [] OTHER -> STATUS_LEVELS("initial")

\* A variant in which the handler records the stage that failed.
StageRaisesMarksStage ==
    /\ \/ pc = "start" /\ Level < STATUS_LEVELS("query_parsed")
       \/ pc = "s2_search" /\ Level < STATUS_LEVELS("web_searched")
       \/ pc = "s2_scrape" /\ Level < STATUS_LEVELS("web_scraped")
       \/ pc = "s2_filtered"
    /\ status' = CHOOSE n \in StatusNames : STATUS_LEVELS(n) = FailingLevel
    /\ pc' = "failed"
    /\ UNCHANGED << sample_count, checkpoint, assets, locals, restarts, components >>

\* The query parser, the web search, the filtration or the scraping raises:
\* nothing of the stage is stored, the handler saves the state as it is.
StageRaises ==
    /\ \/ pc = "start" /\ Level < STATUS_LEVELS("query_parsed")
       \/ pc = "s2_search" /\ Level < STATUS_LEVELS("web_searched")
       \/ pc = "s2_scrape" /\ Level < STATUS_LEVELS("web_scraped")
       \/ pc = "s2_filtered"
    /\ pc' = "failed"
    /\ UNCHANGED << store, locals, restarts, components >>

\* The driver with errors in every stage that calls a re-raising agent.
FailSpec == Init /\ [][Next \/ StageRaises]_vars

\* C28: when a stage raises, the state is saved as it was, and the saved
\* status is the level just below the level of the stage that raised, the
\* level of the stage completed last (below query_parsed when the parser
\* raised); it is never the level of the failing stage, never completed.
C28_FailureKeepsLastLevel ==
    [][pc' = "failed" =>
          /\ store' = store
          /\ status' # "completed"
          /\ STATUS_LEVELS(status') < FailingLevel
          /\ pc # "start" => STATUS_LEVELS(status') = FailingLevel - 1]_vars

\* The scraping of a round that follows a backward transition has raised:
\* the run has ended at web_searched with the topics of the earlier round.
C28_Witness ==
    /\ pc = "failed"
    /\ status = "web_searched"
    /\ Topics # <<>>

(***************************************************************************)
(* The parsing of the generation service's answers.  A response text is a  *)
(* sequence of characters; json.loads is computed on it for the values     *)
(* these characters can spell: strings, numbers and arrays.                *)
(***************************************************************************)
MaxTokens == 5

Quote == "\""

\* The pieces a response text is made of: brackets, a comma, a digit, a
\* string, a word of prose, a quote that nothing closes.
ResponseTokens ==
    { <<"[">>, <<"]">>, <<",">>, <<"1">>, <<Quote, "a", Quote>>, <<"a">>,
      <<Quote>> }

ResponseTexts == { Extend(t) : t \in SeqsUpTo(ResponseTokens, MaxTokens) }

\* str.find and str.rfind: -1 when the character is absent.
PyFind(s, c) == Find(s, c) - 1

RECURSIVE PyRFind(_, _)
PyRFind(s, c) ==
    IF s = <<>> THEN -1
    ELSE IF s[Len(s)] = c THEN Len(s) - 1
    ELSE PyRFind(SubSeq(s, 1, Len(s) - 1), c)

\* s[start:end]: a negative index counts from the end, indices are clamped.
PySlice(s, start, end) ==
    LET Clamp(i) == IF i < 0
                    THEN (IF Len(s) + i < 0 THEN 0 ELSE Len(s) + i)
                    ELSE (IF i > Len(s) THEN Len(s) ELSE i)
        lo == Clamp(start)
        hi == Clamp(end)
    IN  IF hi <= lo THEN <<>> ELSE SubSeq(s, lo + 1, hi)

\* A parsed value: its type, its text (of a string or a number) and its
\* items (of a list).
JsonValueOf(type, text, items) ==
    [ type |-> type, text |-> text, items |-> items ]

JsonFail ==
    [ ok |-> FALSE, value |-> JsonValueOf("none", <<>>, <<>>), rest |-> <<>> ]

JsonOk(value, rest) == [ ok |-> TRUE, value |-> value, rest |-> rest ]

\* The digits a text begins with.
RECURSIVE Digits(_)
Digits(s) ==
    IF s = <<>> \/ Head(s) # "1" THEN <<>> ELSE <<"1">> \o Digits(Tail(s))

\* The JSON decoder: one value at the head of s, and what follows it.
RECURSIVE JsonValue(_)
RECURSIVE JsonItems(_, _)
JsonValue(s) ==
    IF s = <<>> THEN JsonFail
    ELSE IF Head(s) = Quote
    THEN LET close == Find(Tail(s), Quote)
         IN  IF close = 0 THEN JsonFail
             ELSE JsonOk(JsonValueOf("str", SubSeq(Tail(s), 1, close - 1), <<>>),
                         SubSeq(Tail(s), close + 1, Len(s) - 1))
    ELSE IF Head(s) = "1"
    THEN JsonOk(JsonValueOf("num", Digits(s), <<>>),
                SubSeq(s, Len(Digits(s)) + 1, Len(s)))
    ELSE IF Head(s) = "["
    THEN IF Len(s) > 1 /\ s[2] = "]"
         THEN JsonOk(JsonValueOf("list", <<>>, <<>>), SubSeq(s, 3, Len(s)))
         ELSE JsonItems(Tail(s), <<>>)
    ELSE JsonFail

\* The items of an array after its first bracket, up to its last.
JsonItems(s, items) ==
    LET item == JsonValue(s)
    IN  IF ~item.ok \/ item.rest = <<>> THEN JsonFail
        ELSE IF Head(item.rest) = ","
        THEN JsonItems(Tail(item.rest), Append(items, item.value))
        ELSE IF Head(item.rest) = "]"
        THEN JsonOk(JsonValueOf("list", <<>>, Append(items, item.value)),
                    Tail(item.rest))
        ELSE JsonFail

\* json.loads: the whole text is one value, or JSONDecodeError (ok FALSE).
JsonLoads(text) ==
    LET r == JsonValue(text)
    IN  IF r.ok /\ r.rest = <<>> THEN r ELSE JsonFail

\* The texts of the items that are strings, in order.
RECURSIVE Strings(_)
Strings(items) ==
    IF items = <<>> THEN <<>>
    ELSE IF Head(items).type = "str"
         THEN <<Head(items).text>> \o Strings(Tail(items))
         ELSE Strings(Tail(items))

\* A variant that turns every item into a topic.
ExtractTopicsOfAnyItem(response) ==
    LET start_idx == PyFind(response, "[")
        end_idx == PyRFind(response, "]") + 1
        topics_list == JsonLoads(PySlice(response, start_idx, end_idx))
    IN  IF ~topics_list.ok THEN <<>>
        ELSE [i \in 1..Len(topics_list.value.items) |->
                 topics_list.value.items[i].text]

\* extract_topics after generate_text has returned: the slice from the first
\* "[" to the last "]", decoded; the strings of the list, or [] when
\* anything in the try block raised.  Iterating a decoded string gives its
\* characters, iterating a number raises.
ExtractTopics(response) ==
    LET start_idx == PyFind(response, "[")
        end_idx == PyRFind(response, "]") + 1
        topics_list == JsonLoads(PySlice(response, start_idx, end_idx))
    IN  IF ~topics_list.ok THEN <<>>
        ELSE IF topics_list.value.type = "list"
        THEN Strings(topics_list.value.items)
        ELSE IF topics_list.value.type = "str"
        THEN [i \in 1..Len(topics_list.value.text) |->
                 <<topics_list.value.text[i]>>]
        ELSE <<>>

\* generate_synthetic_data after generate_text has returned.
GenerateSyntheticData(response) ==
    LET json_start == PyFind(response, "[")
        json_end == PyRFind(response, "]")
        data == JsonLoads(PySlice(response, json_start, json_end + 1))
    IN  IF json_start = -1 \/ json_end = -1 THEN <<>>
        ELSE IF ~data.ok THEN <<>>
        ELSE IF data.value.type = "list" THEN data.value.items
        ELSE <<>>

\* One call of extract_topics on a response text.
ParseTopics ==
    /\ gemini = Idle
    /\ pc = "start"
    /\ \E response \in ResponseTexts :
          gemini' = [ phase |-> "topics_parsed",
                      response |-> response,
                      result |-> ExtractTopics(response) ]
    /\ UNCHANGED << driver, orch, gen, call >>

\* One call of generate_synthetic_data on a response text.
ParseData ==
    /\ gemini = Idle
    /\ pc = "start"
    /\ \E response \in ResponseTexts :
          gemini' = [ phase |-> "data_parsed",
                      response |-> response,
                      result |-> GenerateSyntheticData(response) ]
    /\ UNCHANGED << driver, orch, gen, call >>

ParseDone ==
    /\ gemini.phase \in {"topics_parsed", "data_parsed"}
    /\ gemini' = Idle
    /\ UNCHANGED << driver, orch, gen, call >>

ParseSpec == Init /\ [][ParseTopics \/ ParseData \/ ParseDone]_vars

\* The array a response text holds: what stands from its first "[" to its
\* last "]", decoded; not ok when a bracket is missing, when the last "]"
\* comes before the first "[", or when what stands between is malformed.
ArrayIn(response) ==
    LET first == Find(response, "[")
        last == PyRFind(response, "]") + 1
    IN  IF first = 0 \/ last = 0 \/ last < first THEN JsonFail
        ELSE JsonLoads(SubSeq(response, first, last))

\* C29: both functions return; for a response text with no JSON array or
\* with a malformed one the result is the empty list; of a well-formed array
\* extract_topics returns the strings, in order, and nothing for an item
\* that is not a string, and generate_synthetic_data returns the items.
C29_MalformedResponseGivesEmptyList ==
    gemini.phase \in {"topics_parsed", "data_parsed"} =>
       LET array == ArrayIn(gemini.response)
       IN  /\ ~array.ok => gemini.result = <<>>
           /\ (array.ok /\ gemini.phase = "topics_parsed") =>
                 /\ Len(gemini.result) =
                       Cardinality({ i \in 1..Len(array.value.items) :
                                        array.value.items[i].type = "str" })
                 /\ \A i \in 1..Len(gemini.result) :
                       \E j \in i..Len(array.value.items) :
                          /\ array.value.items[j].type = "str"
                          /\ array.value.items[j].text = gemini.result[i]
           /\ (array.ok /\ gemini.phase = "data_parsed") =>
                 gemini.result = array.value.items

\* extract_topics has returned the one string of an array that holds a
\* string and a number.
C29_Witness ==
    /\ gemini.phase = "topics_parsed"
    /\ gemini.response = <<"[", Quote, "a", Quote, ",", "1", "]">>
    /\ gemini.result = << <<"a">> >>

\* A response text whose array is malformed has been answered with [].
C29_WitnessMalformed ==
    /\ gemini.phase = "data_parsed"
    /\ gemini.response = <<"[", "a", "]">>
    /\ gemini.result = <<>>

(***************************************************************************)
(* The canonical keys, applied to pairs of URLs and pairs of records.      *)
(***************************************************************************)
\* The text fields of generated records.
ContentTexts == { <<"a">>, <<"A">>, <<"a", " ">>, <<"b">> }

\* The text without its whitespace and in lower case.
RECURSIVE Fold(_)
Fold(t) ==
    IF t = <<>> THEN <<>>
    ELSE IF Head(t) = " " THEN Fold(Tail(t))
    ELSE <<LowerChar(Head(t))>> \o Fold(Tail(t))

\* The two URLs differ at most in letter case and in one trailing slash.
SameButCaseOrSlash(u1, u2) ==
    \/ Lower(u1) = Lower(u2)
    \/ Lower(u1) = Lower(u2) \o <<"/">>
    \/ Lower(u2) = Lower(u1) \o <<"/">>

KeysOfUrls ==
    /\ call = Idle
    /\ pc = "start"
    /\ \E u1 \in UrlTexts, u2 \in UrlTexts :
          call' = [ phase |-> "url_keys",
                    url1 |-> u1,
                    url2 |-> u2,
                    key1 |-> NormalizeUrl(u1),
                    key2 |-> NormalizeUrl(u2),
                    again1 |-> NormalizeUrl(NormalizeUrl(u1)) ]
    /\ UNCHANGED << driver, orch, gen, gemini >>

KeysOfRecords ==
    /\ call = Idle
    /\ pc = "start"
    /\ \E t1 \in ContentTexts, t2 \in ContentTexts :
          call' = [ phase |-> "content_keys",
                    text1 |-> t1,
                    text2 |-> t2,
                    key1 |-> ContentKey([text |-> t1]),
                    key2 |-> ContentKey([text |-> t2]) ]
    /\ UNCHANGED << driver, orch, gen, gemini >>

KeysDone ==
    /\ call.phase \in {"url_keys", "content_keys"}
    /\ call' = Idle
    /\ UNCHANGED << driver, orch, gen, gemini >>

KeySpec == Init /\ [][KeysOfUrls \/ KeysOfRecords \/ KeysDone]_vars

\* C30: two URLs that differ only in letter case or in a trailing slash have
\* the same URL key, normalizing a normalized URL returns it unchanged, and
\* two records whose text differs only in letter case or whitespace have the
\* same content key.
C30_KeysInsensitive ==
    /\ call.phase = "url_keys" =>
          /\ SameButCaseOrSlash(call.url1, call.url2) => call.key1 = call.key2
          /\ call.again1 = call.key1
    /\ call.phase = "content_keys" =>
          (Fold(call.text1) = Fold(call.text2) => call.key1 = call.key2)

(***************************************************************************)
(* The checkpoint values of the driver against the assets they count.      *)
(***************************************************************************)
\* C31: the checkpointed topic index moves by one step at a time, one for
\* each topic handed to the agent, whatever became of the topic and of the
\* writes that follow it, and it stays between -1 and the index of the last
\* extracted topic.
C31_TopicIndexStepsByOne ==
    [][ LET before == GetCheckpoint("last_processed_topic_index", -1)
            after == IF checkpoint'.last_processed_topic_index = Unset
                     THEN -1
                     ELSE checkpoint'.last_processed_topic_index
        IN  /\ after \in {before, before + 1}
            /\ -1 <= after
            /\ after <= Len(assets'.all_extracted_topics) - 1 ]_vars

\* C32: where the driver persists the run state, the checkpointed record
\* count is the length of synthetic_data and the checkpointed topics_found
\* is the length of all_extracted_topics, once each has been written.
C32_CheckpointCountsMatchAssets ==
    [][ /\ (pc = "s3_saved" /\ pc' # "start") =>
              checkpoint'.topics_found = Len(assets'.all_extracted_topics)
        /\ (pc \in {"s4_saved", "s4_except"} /\ pc' # "start") =>
              checkpoint'.synthetic_data_generated_count =
                 Len(assets'.synthetic_data) ]_vars

\* C33: at topics_extracted and above the asset holds at least
\* required_topics distinct topics.
C33_EnoughTopicsBeforeGeneration ==
    Level >= STATUS_LEVELS("topics_extracted") => EnoughTopics

\* Record generation has begun on a topic.
C33_Witness ==
    /\ pc = "s4_topic"
    /\ status = "topics_extracted"
    /\ UniqueCount(Topics) >= required_topics
    /\ restarts = 1

\* C34: every step leaves the topics of the asset where they are and at most
\* appends topics after them, so the topics up to the checkpointed topic
\* index stay the same.
C34_TopicsAppendOnly ==
    [][ /\ Len(assets'.all_extracted_topics) >= Len(Topics)
        /\ SubSeq(assets'.all_extracted_topics, 1, Len(Topics)) = Topics ]_vars

\* A resumed process has merged the topics of a chunk, one of them already
\* in the asset, into two topics or more.
C34_Witness ==
    /\ pc = "s3_saved"
    /\ restarts = 1
    /\ l_chunk >= 1
    /\ Len(Topics) >= 2

\* C35: at content_gathered and above the checkpointed chunk index lies
\* between -1 and the last chunk of the asset; the step that brings the
\* status to content_gathered finds the index at -1, no step at that level
\* replaces the chunks, and the index moves by one chunk at a time.
C35_ChunkIndexFollowsChunks ==
    [][ LET before == GetCheckpoint("last_processed_chunk_index", -1)
            after == IF checkpoint'.last_processed_chunk_index = Unset
                     THEN -1
                     ELSE checkpoint'.last_processed_chunk_index
            chunks == IF assets'.all_chunks = NoChunks
                      THEN 0 ELSE assets'.all_chunks
            gathered == STATUS_LEVELS("content_gathered")
        IN  /\ STATUS_LEVELS(status') >= gathered =>
                  /\ -1 <= after
                  /\ after < chunks
            /\ (Level < gathered /\ STATUS_LEVELS(status') >= gathered) =>
                  after = -1
            /\ Level >= gathered =>
                  /\ assets'.all_chunks = assets.all_chunks
                  /\ after \in {before, before + 1} ]_vars

\* New chunks have been gathered after a round in which chunks were
\* processed: the index is back at -1.
C35_Witness ==
    /\ pc = "s3"
    /\ status = "content_gathered"
    /\ checkpoint.last_processed_chunk_index = -1
    /\ Topics # <<>>

(***************************************************************************)
(* generate_text called by several workers at once.  The service object is *)
(* one for the process, so the workers of a batch share current_key_index; *)
(* a request goes out under the key the index names when it is sent.       *)
(***************************************************************************)
Workers == 1..MaxWorkers

\* The workers of a batch enter generate_text on a service with two keys or
\* more, at any key index.
SharedStart ==
    /\ gemini = Idle
    /\ pc = "start"
    /\ \E num_keys \in 2..MaxKeys, max_retries \in 1..MaxRetries :
          \E k \in 0..(num_keys - 1) :
             gemini' = [ phase |-> "shared",
                         num_keys |-> num_keys,
                         max_retries |-> max_retries,
                         current_key_index |-> k,
                         worker |-> [w \in Workers |->
                                        [ at |-> "loop",
                                          attempt |-> 0,
                                          key |-> k,
                                          after_quota |-> FALSE,
                                          failed_key |-> k,
                                          read |-> k ]] ]
    /\ UNCHANGED << driver, orch, gen, call >>

\* model.generate_content is called: the request goes out under the
\* current key.
WorkerRequest(w) ==
    /\ gemini.phase = "shared"
    /\ gemini.worker[w].at = "loop"
    /\ gemini' = [gemini EXCEPT
                     !.worker[w].at = "request",
                     !.worker[w].key = gemini.current_key_index]
    /\ UNCHANGED << driver, orch, gen, call >>

\* return response.text
WorkerSucceeds(w) ==
    /\ gemini.phase = "shared"
    /\ gemini.worker[w].at = "request"
    /\ gemini' = [gemini EXCEPT !.worker[w].at = "returned"]
    /\ UNCHANGED << driver, orch, gen, call >>

\* What follows the handler: raise at the last attempt, or sleep and loop.
AfterFailure(w) ==
    IF gemini.worker[w].attempt = Attempts - 1 THEN "raised" ELSE "loop"

\* The request raises with a quota or rate limit message: the handler
\* reads current_key_index to rotate it.
WorkerQuotaFails(w) ==
    /\ gemini.phase = "shared"
    /\ gemini.worker[w].at = "request"
    /\ gemini' = [gemini EXCEPT
                     !.worker[w].at = "rotate",
                     !.worker[w].after_quota = TRUE,
                     !.worker[w].failed_key = gemini.worker[w].key,
                     !.worker[w].read = gemini.current_key_index]
    /\ UNCHANGED << driver, orch, gen, call >>

\* _rotate_api_key stores the index it has computed from what it read.
WorkerRotates(w) ==
    /\ gemini.phase = "shared"
    /\ gemini.worker[w].at = "rotate"
    /\ gemini' = [gemini EXCEPT
                     !.current_key_index =
                        (gemini.worker[w].read + 1) % gemini.num_keys,
                     !.worker[w].at = AfterFailure(w),
                     !.worker[w].attempt =
                        IF AfterFailure(w) = "loop" THEN @ + 1 ELSE @]
    /\ UNCHANGED << driver, orch, gen, call >>

\* The request raises with any other message: no rotation.
WorkerOtherFails(w) ==
    /\ gemini.phase = "shared"
    /\ gemini.worker[w].at = "request"
    /\ gemini' = [gemini EXCEPT
                     !.worker[w].at = AfterFailure(w),
                     !.worker[w].after_quota = FALSE,
                     !.worker[w].attempt =
                        IF AfterFailure(w) = "loop" THEN @ + 1 ELSE @]
    /\ UNCHANGED << driver, orch, gen, call >>

\* Every worker has left generate_text.
SharedDone ==
    /\ gemini.phase = "shared"
    /\ \A w \in Workers : gemini.worker[w].at \in {"returned", "raised"}
    /\ gemini' = Idle
    /\ UNCHANGED << driver, orch, gen, call >>

SharedSpec ==
    Init /\ [][ \/ SharedStart
                \/ \E w \in Workers :
                      \/ WorkerRequest(w) \/ WorkerSucceeds(w)
                      \/ WorkerQuotaFails(w) \/ WorkerRotates(w)
                      \/ WorkerOtherFails(w)
                \/ SharedDone ]_vars

\* C36: the request a worker sends after its request under key K failed
\* with a quota error goes out under a key other than K.
C36_NextAttemptUsesOtherKey ==
    gemini.phase = "shared" =>
       \A w \in Workers :
          (gemini.worker[w].at = "request" /\ gemini.worker[w].after_quota) =>
             gemini.worker[w].key # gemini.worker[w].failed_key

(***************************************************************************)
(* WebScrapingAgent.execute: one scrape_url per search result.  scrape_url *)
(* answers with a record of the page, with a failure record, or with None. *)
(***************************************************************************)
ScrapeUrls == {"u1", "u2"}

ScrapeInputs == SeqsUpTo(ScrapeUrls, MaxResults)

\* The ScrapedContent built for a page and for a failed scrape.
ScrapedPage(url) == [url |-> url, content |-> "text", success |-> TRUE]
ScrapedFailure(url) == [url |-> url, content |-> "", success |-> FALSE]

ScrapeStart ==
    /\ call = Idle
    /\ pc = "start"
    /\ \E input \in ScrapeInputs :
          call' = [ phase |-> "scraping",
                    input_data |-> input,
                    i |-> 0,
                    requested |-> <<>>,
                    scraped_results |-> <<>> ]
    /\ UNCHANGED << driver, orch, gen, gemini >>

\* scrape_data has success set: the page is appended.
ScrapeUrlSucceeds ==
    /\ call.phase = "scraping"
    /\ call.i < Len(call.input_data)
    /\ call' = [call EXCEPT
                   !.requested = Append(@, call.input_data[call.i + 1]),
                   !.scraped_results =
                      Append(@, ScrapedPage(call.input_data[call.i + 1])),
                   !.i = @ + 1]
    /\ UNCHANGED << driver, orch, gen, gemini >>

\* A variant that drops the URL whose scrape failed.
ScrapeUrlFailsDropped ==
    /\ call.phase = "scraping"
    /\ call.i < Len(call.input_data)
    /\ call' = [call EXCEPT
                   !.requested = Append(@, call.input_data[call.i + 1]),
                   !.i = @ + 1]
    /\ UNCHANGED << driver, orch, gen, gemini >>

\* scrape_data is a failure record or None: a failed entry is appended.
ScrapeUrlFails ==
    /\ call.phase = "scraping"
    /\ call.i < Len(call.input_data)
    /\ call' = [call EXCEPT
                   !.requested = Append(@, call.input_data[call.i + 1]),
                   !.scraped_results =
                      Append(@, ScrapedFailure(call.input_data[call.i + 1])),
                   !.i = @ + 1]
    /\ UNCHANGED << driver, orch, gen, gemini >>

\* The loop is over: return scraped_results.
ScrapeReturn ==
    /\ call.phase = "scraping"
    /\ call.i = Len(call.input_data)
    /\ call' = [call EXCEPT !.phase = "scraped"]
    /\ UNCHANGED << driver, orch, gen, gemini >>

ScrapeDone ==
    /\ call.phase = "scraped"
    /\ call' = Idle
    /\ UNCHANGED << driver, orch, gen, gemini >>

ScrapeSpec ==
    Init /\ [][ScrapeStart \/ ScrapeUrlSucceeds \/ ScrapeUrlFails
                  \/ ScrapeReturn \/ ScrapeDone]_vars

\* C37: execute returns one entry for each input URL, in the order of the
\* input; every URL has been requested, whatever became of the URLs before
\* it; an entry is a page, or a failure with no content.
C37_OneEntryPerUrl ==
    call.phase = "scraped" =>
       /\ Len(call.scraped_results) = Len(call.input_data)
       /\ call.requested = call.input_data
       /\ \A k \in 1..Len(call.input_data) :
             /\ call.scraped_results[k].url = call.input_data[k]
             /\ ~call.scraped_results[k].success =>
                   call.scraped_results[k].content = ""

\* A call has returned a page after a failed entry.
C37_Witness ==
    /\ call.phase = "scraped"
    /\ Len(call.scraped_results) >= 2
    /\ ~call.scraped_results[1].success
    /\ call.scraped_results[2].success

(***************************************************************************)
(* The HTTP front end: the registry active_workflows, the start and the    *)
(* download handlers, and the background task of a workflow.  The handlers *)
(* and the task run on one event loop and the task awaits nothing, so      *)
(* no handler runs between two statements of a task.                       *)
(***************************************************************************)
WorkflowIds == {"w1", "w2"}

Queries == {"q1", "q2"}

\* What main_workflow.run_workflow reports in final_state["status"].
WorkflowStatuses == {"completed", "failed"}

NoEntry == [status |-> "none", query |-> "none", dataset_path |-> FALSE]

\* No task is between two of its statements.
LoopFree == \A id \in WorkflowIds : orch.task[id] \in {"none", "queued", "ended"}

ApiStart ==
    /\ orch = Idle
    /\ pc = "start"
    /\ orch' = [ phase |-> "api",
                 active_workflows |-> [id \in WorkflowIds |-> NoEntry],
                 task |-> [id \in WorkflowIds |-> "none"],
                 response |-> [op |-> "none", id |-> "none", code |-> 0] ]
    /\ UNCHANGED << driver, gen, call, gemini >>

\* A variant of start_pipeline that registers the workflow again.
StartPipelineOverwrites(id, query) ==
    /\ orch.phase = "api"
    /\ LoopFree
    /\ orch' = [orch EXCEPT
                   !.active_workflows[id] =
                      [status |-> "starting", query |-> query,
                       dataset_path |-> FALSE],
                   !.task[id] = "queued",
                   !.response = [op |-> "start", id |-> id, code |-> 200]]
    /\ UNCHANGED << driver, gen, call, gemini >>

\* start_pipeline: 400 for an id of the registry, else a new entry and a
\* background task.
StartPipeline(id, query) ==
    /\ orch.phase = "api"
    /\ LoopFree
    /\ IF orch.active_workflows[id] # NoEntry
       THEN orch' = [orch EXCEPT
                        !.response = [op |-> "start", id |-> id, code |-> 400]]
       ELSE orch' = [orch EXCEPT
                        !.active_workflows[id] =
                           [status |-> "starting", query |-> query,
                            dataset_path |-> FALSE],
                        !.task[id] = "queued",
                        !.response = [op |-> "start", id |-> id, code |-> 200]]
    /\ UNCHANGED << driver, gen, call, gemini >>

\* run_workflow_background begins: status "running".
TaskBegins(id) ==
    /\ orch.phase = "api"
    /\ LoopFree
    /\ orch.task[id] = "queued"
    /\ orch' = [orch EXCEPT !.active_workflows[id].status = "running",
                            !.task[id] = "workflow"]
    /\ UNCHANGED << driver, gen, call, gemini >>

\* run_workflow returns: the entry takes the status of the final state.
TaskWorkflowReturns(id) ==
    /\ orch.phase = "api"
    /\ orch.task[id] = "workflow"
    /\ \E final \in WorkflowStatuses :
          orch' = [orch EXCEPT !.active_workflows[id].status = final,
                               !.task[id] = "result"]
    /\ UNCHANGED << driver, gen, call, gemini >>

\* The progress text, and the dataset path of a completed workflow, are
\* written: the task ends.
TaskEnds(id) ==
    /\ orch.phase = "api"
    /\ orch.task[id] = "result"
    /\ orch' = [orch EXCEPT
                   !.active_workflows[id].dataset_path =
                      (orch.active_workflows[id].status = "completed"),
                   !.task[id] = "ended"]
    /\ UNCHANGED << driver, gen, call, gemini >>

\* Anything in the try block raises, run_workflow or what reads its final
\* state afterwards: status "crashed".
TaskCrashes(id) ==
    /\ orch.phase = "api"
    /\ orch.task[id] \in {"workflow", "result"}
    /\ orch' = [orch EXCEPT !.active_workflows[id].status = "crashed",
                            !.task[id] = "ended"]
    /\ UNCHANGED << driver, gen, call, gemini >>

\* download_dataset: 404 for an unknown id, 400 unless completed, 404
\* without a dataset path, else the file.
DownloadDataset(id) ==
    /\ orch.phase = "api"
    /\ LoopFree
    /\ orch' = [orch EXCEPT !.response =
                   [ op |-> "download", id |-> id,
                     code |-> IF orch.active_workflows[id] = NoEntry THEN 404
                              ELSE IF orch.active_workflows[id].status # "completed"
                              THEN 400
                              ELSE IF ~orch.active_workflows[id].dataset_path
                              THEN 404
                              ELSE 200 ]]
    /\ UNCHANGED << driver, gen, call, gemini >>

\* The server process ends: the registry is gone.
ApiStop ==
    /\ orch.phase = "api"
    /\ LoopFree
    /\ orch' = Idle
    /\ UNCHANGED << driver, gen, call, gemini >>

ApiSpec ==
    Init /\ [][ \/ ApiStart
                \/ \E id \in WorkflowIds :
                      \/ \E query \in Queries : StartPipeline(id, query)
                      \/ TaskBegins(id) \/ TaskWorkflowReturns(id)
                      \/ TaskEnds(id) \/ TaskCrashes(id)
                      \/ DownloadDataset(id)
                \/ ApiStop ]_vars

\* The registry parts of C38, common to the claim and its amended form: a
\* start answered with 400 leaves the registry as it was, an entry keeps its
\* query, and a download is answered with the file only at "completed".
RegistryRules ==
    orch.phase = "api" /\ orch'.phase = "api" =>
       /\ (orch'.response.op = "start" /\ orch'.response.code = 400
              /\ orch'.response # orch.response) =>
             orch'.active_workflows = orch.active_workflows
       /\ \A id \in WorkflowIds :
             orch.active_workflows[id] # NoEntry =>
                /\ orch'.active_workflows[id] # NoEntry
                /\ orch'.active_workflows[id].query =
                      orch.active_workflows[id].query
       /\ (orch'.response.op = "download" /\ orch'.response.code = 200) =>
             orch'.active_workflows[orch'.response.id].status = "completed"

\* The status of workflow id changes from one value to another.
StatusMoves(id, from, to) ==
    /\ orch.active_workflows[id].status = from
    /\ orch'.active_workflows[id].status = to

\* C38 with one more move: a status the workflow reported may still become
\* "crashed" before the task ends; no status returns to "starting" or
\* "running".
C38_RegistryAndStatusOrder ==
    [][ /\ RegistryRules
        /\ (orch.phase = "api" /\ orch'.phase = "api") =>
              \A id \in WorkflowIds :
                 \/ orch'.active_workflows[id].status =
                       orch.active_workflows[id].status
                 \/ StatusMoves(id, "none", "starting")
                 \/ StatusMoves(id, "starting", "running")
                 \/ \E final \in WorkflowStatuses \cup {"crashed"} :
                       StatusMoves(id, "running", final)
                 \/ \E final \in WorkflowStatuses :
                       /\ StatusMoves(id, final, "crashed")
                       /\ orch.task[id] = "result" ]_vars

\* A second start with the id of a completed workflow has been refused.
C38_Witness ==
    /\ orch.phase = "api"
    /\ orch.response = [op |-> "start", id |-> "w1", code |-> 400]
    /\ orch.active_workflows["w1"].status = "completed"
    /\ orch.active_workflows["w2"].status = "crashed"

\* C38 as stated: starting, then running, then one final status.
C38_StatusMovesOnceToFinal ==
    [][ /\ RegistryRules
        /\ (orch.phase = "api" /\ orch'.phase = "api") =>
              \A id \in WorkflowIds :
                 \/ orch'.active_workflows[id].status =
                       orch.active_workflows[id].status
                 \/ StatusMoves(id, "none", "starting")
                 \/ StatusMoves(id, "starting", "running")
                 \/ \E final \in WorkflowStatuses \cup {"crashed"} :
                       StatusMoves(id, "running", final) ]_vars

(***************************************************************************)
(* The GUI front end: the thread that runs the pipeline in a subprocess    *)
(* and puts its output on a queue, and the generator that takes from the   *)
(* queue.  None is the end-of-stream sentinel.                             *)
(***************************************************************************)
MaxLines == 2

LogLines == {"l1", "l2"}

Sentinel == "None"

\* The two messages put after the subprocess: header and body.
Report(kind) == << kind, kind \o " body" >>

\* A query is submitted: the generator makes the queue and starts the
\* thread; the subprocess will write some lines.
GuiStart ==
    /\ gen = Idle
    /\ pc = "start"
    /\ \E lines \in SeqsUpTo(LogLines, MaxLines) :
          gen' = [ phase |-> "gui",
                   stdout |-> lines,
                   thread |-> "popen",
                   report |-> <<>>,
                   output_queue |-> <<>>,
                   put |-> <<>>,
                   consumer |-> "get",
                   full_log |-> <<>> ]
    /\ UNCHANGED << driver, orch, call, gemini >>

\* subprocess.Popen returns.
ThreadPopen ==
    /\ gen.phase = "gui"
    /\ gen.thread = "popen"
    /\ gen' = [gen EXCEPT !.thread = "stream"]
    /\ UNCHANGED << driver, orch, call, gemini >>

\* readline returns a line: output_queue.put(line).
ThreadPutsLine ==
    /\ gen.phase = "gui"
    /\ gen.thread = "stream"
    /\ gen.stdout # <<>>
    /\ gen' = [gen EXCEPT !.stdout = Tail(@),
                          !.output_queue = Append(@, Head(gen.stdout)),
                          !.put = Append(@, Head(gen.stdout))]
    /\ UNCHANGED << driver, orch, call, gemini >>

\* End of the output, process.wait(), and the test for the summary file.
ThreadWaits ==
    /\ gen.phase = "gui"
    /\ gen.thread = "stream"
    /\ gen.stdout = <<>>
    /\ \E kind \in {"complete", "failed"} :
          gen' = [gen EXCEPT !.thread = "report", !.report = Report(kind)]
    /\ UNCHANGED << driver, orch, call, gemini >>

\* Popen, readline, wait or the reading of the summary raises: the handler
\* will put the error messages.
ThreadRaises ==
    /\ gen.phase = "gui"
    /\ \/ gen.thread \in {"popen", "stream"}
       \/ gen.thread = "report" /\ gen.report = Report("complete")
    /\ gen' = [gen EXCEPT !.thread = "report", !.report = Report("error")]
    /\ UNCHANGED << driver, orch, call, gemini >>

\* One of the two messages is put.
ThreadPutsReport ==
    /\ gen.phase = "gui"
    /\ gen.thread = "report"
    /\ gen' = [gen EXCEPT
                  !.report = Tail(@),
                  !.output_queue = Append(@, Head(gen.report)),
                  !.put = Append(@, Head(gen.report)),
                  !.thread = IF Len(gen.report) = 1 THEN "finally" ELSE @]
    /\ UNCHANGED << driver, orch, call, gemini >>

\* A variant without the sentinel.
ThreadEndsSilently ==
    /\ gen.phase = "gui"
    /\ gen.thread = "finally"
    /\ gen' = [gen EXCEPT !.thread = "ended"]
    /\ UNCHANGED << driver, orch, call, gemini >>

\* finally: output_queue.put(None); the thread ends.
ThreadPutsSentinel ==
    /\ gen.phase = "gui"
    /\ gen.thread = "finally"
    /\ gen' = [gen EXCEPT !.output_queue = Append(@, Sentinel),
                          !.put = Append(@, Sentinel),
                          !.thread = "ended"]
    /\ UNCHANGED << driver, orch, call, gemini >>

\* output_queue.get() returns: break at the sentinel, else the line is
\* added to the log and the log is yielded.
ConsumerGets ==
    /\ gen.phase = "gui"
    /\ gen.consumer = "get"
    /\ gen.output_queue # <<>>
    /\ gen' = [gen EXCEPT
                  !.output_queue = Tail(@),
                  !.consumer = IF Head(gen.output_queue) = Sentinel
                               THEN "join" ELSE @,
                  !.full_log = IF Head(gen.output_queue) = Sentinel
                               THEN @ ELSE Append(@, Head(gen.output_queue))]
    /\ UNCHANGED << driver, orch, call, gemini >>

\* thread.join() returns and the last value is yielded.
ConsumerJoins ==
    /\ gen.phase = "gui"
    /\ gen.consumer = "join"
    /\ gen.thread = "ended"
    /\ gen' = [gen EXCEPT !.consumer = "done"]
    /\ UNCHANGED << driver, orch, call, gemini >>

GuiDone ==
    /\ gen.phase = "gui"
    /\ gen.consumer = "done"
    /\ gen' = Idle
    /\ UNCHANGED << driver, orch, call, gemini >>

GuiNext ==
    \/ GuiStart \/ ThreadPopen \/ ThreadPutsLine \/ ThreadWaits
    \/ ThreadRaises \/ ThreadPutsReport \/ ThreadPutsSentinel
    \/ ConsumerGets \/ ConsumerJoins \/ GuiDone

GuiSpec == Init /\ [][GuiNext]_vars

\* The thread and the generator are scheduled as long as they can run.
GuiFairSpec == GuiSpec /\ WF_vars(GuiNext)

NotSentinel(x) == x # Sentinel

\* The sentinel is put at most once and nothing is put after it; the thread
\* does not end without it; the log is what was put, in order, as far as
\* the generator has come, and all of it once the generator is past the
\* sentinel.
SentinelLast ==
    gen.phase = "gui" =>
       LET lines == SelectSeq(gen.put, NotSentinel)
       IN  /\ Len(gen.put) - Len(lines) <= 1
           /\ Len(gen.put) > Len(lines) => gen.put[Len(gen.put)] = Sentinel
           /\ gen.thread = "ended" => Len(gen.put) > Len(lines)
           /\ Len(gen.full_log) <= Len(lines)
           /\ gen.full_log = SubSeq(lines, 1, Len(gen.full_log))
           /\ gen.consumer \in {"join", "done"} => gen.full_log = lines

\* C39: the sentinel comes once and last on every path, the generator
\* yields what was put in order, and a started generator comes to its end.
C39_SentinelOnceAndConsumerEnds ==
    /\ []SentinelLast
    /\ (gen.phase = "gui") ~> (gen.phase = "gui" /\ gen.consumer = "done")

\* The generator has ended after a line and the two error messages.
C39_Witness ==
    /\ gen.phase = "gui"
    /\ gen.consumer = "done"
    /\ Len(gen.full_log) = 3
    /\ gen.full_log[3] = Report("error")[2]

=============================================================================
